---- MODULE Spec2Model ----
(***************************************************************************)
(* State-machine model of the task-management backend                      *)
(* (students/TunchikAnton/task_02/backend/main.py, models.py).             *)
(*                                                                         *)
(* The relational store is the state: one variable per table, plus the     *)
(* upload directory.  Every HTTP handler is one action; execute_db commits *)
(* each statement on its own connection, so a handler that raises after a  *)
(* statement keeps that statement's effect.                                *)
(***************************************************************************)
EXTENDS Integers, Sequences, FiniteSets, Bags, TLC

\* ------------------------------------------------------------------ bounds

\* Spec: rows of each table.
MaxTasks == 1
MaxTags == 1
MaxSubTasks == 1
MaxFiles == 1
MaxReminders == 1
\* SpecTags: rows of Tag and Task, ids in one tag_ids list.
TagRows == 2
TaskRows == 2
MaxTagList == 2
\* SpecActAs: rows of Tag and Task.
ActTags == 1
ActTasks == 2
\* SpecGen: rows of Tag and Task.
GenTags == 1
GenTasks == 3
\* SpecPage: rows of Task.
PageTasks == 3
\* SpecUpload: rows of File.
UpFiles == 2
\* SpecRem: rows of Reminder.
RemRows == 1
\* SpecInline: rows of Task and of SubTask, entries of an inline list.
InlTasks == 1
InlRows == 60
MaxInline == 60
\* SpecBehalf: rows of Tag and Task.
BehalfTags == 2
BehalfTasks == 2
\* SpecNames: rows of Tag and Task.
NameTags == 2
NameTasks == 1
\* SpecUsers: rows of Task and of each table under it.
UserTasks == 1
UserRows == 1
\* SpecReg: the largest id of a User row.
RegUsers == 6
MaxClock == 1

\* ------------------------------------------------------- program constants

None == 0
MaxUploadBytes == 26214400
MinLimit == 1
MaxLimit == 100
MinOffset == 0
InlineCap == 50
MinTitleLen == 1
MaxTitleLen == 200
MinNameLen == 1
MinRepeat == 1
MinEvery == 1
MaxEvery == 10080
MaxRepeat == 525600
\* datetime.max (9999-12-31T23:59), in minutes from the origin of the model's
\* clock: the origin is put this many minutes before it.
DateTimeMax == 3
MaxNameLen == 50

\* ------------------------------------------------------------------- state

VARIABLES
    users,      \* table User:     [id, role, email]
    tags,       \* table Tag:      [id, user_id, name]
    tasks,      \* table Task:     [id, user_id, title, description, due_at, status,
                \*                  repeat_interval_minutes, created_at]
    taskTag,    \* table TaskTag:  a bag of [task_id, tag_id] rows
    subtasks,   \* table SubTask:  [id, task_id, user_id, title, is_done]
    files,      \* table File:     [id, task_id, user_id, size_bytes, storage_path]
    reminders,  \* table Reminder: [id, task_id, user_id, every_minutes, start_at,
                \*                  end_at, is_enabled, next_run_at]
    blobs,      \* storage paths present under UPLOAD_DIR
    nextId,     \* the next row id of each table
    cap,        \* the most rows each table is let to hold ids for (never changes)
    now,        \* the clock read by utcnow()
    reg,        \* the registration each worker thread holds between its SELECT
                \* and its INSERT
    sync,       \* the tag sync each worker thread is in the middle of, and
                \* (history) the task and tag_ids of the last one it ran
    createdBy,  \* history: who issued the call that inserted each Task and Tag row
    last        \* history: the last request and its response

store == <<users, tags, tasks, taskTag, subtasks, files, reminders, blobs>>
vars == <<users, tags, tasks, taskTag, subtasks, files, reminders, blobs,
          nextId, cap, now, reg, sync, createdBy, last>>

\* ----------------------------------------------------------------- values

UserIds == {1, 2, 3}
\* An address: the part before the @ and the part after it.
Mail(local) == [local |-> local, domain |-> <<"x">>]
NoMail == [local |-> <<>>, domain |-> <<>>]

Admin == [id |-> 1, role |-> "admin", email |-> Mail(<<"r">>)]
Alice == [id |-> 2, role |-> "user", email |-> Mail(<<"a">>)]
Bob == [id |-> 3, role |-> "user", email |-> Mail(<<"b">>)]
\* The worker threads that run register.
Workers == {1, 2}
Idle == [pc |-> "idle", email |-> NoMail, role |-> "user"]
NoSync == [pc |-> "idle", actor |-> None, tid |-> None, asked |-> <<>>, ids |-> <<>>]
Roles == {"user", "admin"}
Statuses == {"todo", "in_progress", "done", "archived"}

\* An Optional[datetime]: set = FALSE is None.  aware tells whether the ISO
\* text carries a UTC offset.
NoTime == [set |-> FALSE, t |-> 0, aware |-> FALSE]
At(t, aware) == [set |-> TRUE, t |-> t, aware |-> aware]

\* Any other Optional[...] field: set = FALSE is None (v then holds a filler).
Some(v) == [set |-> TRUE, v |-> v]
NoText == [set |-> FALSE, v |-> <<>>]
NoBool == [set |-> FALSE, v |-> FALSE]
NoStatus == [set |-> FALSE, v |-> "todo"]
NoRole == [set |-> FALSE, v |-> "user"]

\* An Optional[List[int]]: given = FALSE is None.
NoTagIds == [given |-> FALSE, ids |-> <<>>]
TagIdList(ids) == [given |-> TRUE, ids |-> ids]

Range(s) == {s[i] : i \in 1..Len(s)}

\* str.strip() on a title or name held as a sequence of characters.
RECURSIVE LStrip(_)
LStrip(s) == IF s # <<>> /\ Head(s) = " " THEN LStrip(Tail(s)) ELSE s

RECURSIVE RStrip(_)
RStrip(s) ==
    IF s # <<>> /\ s[Len(s)] = " " THEN RStrip(SubSeq(s, 1, Len(s) - 1)) ELSE s

Strip(s) == RStrip(LStrip(s))

\* Field(..., min_length=1, max_length=200) on a title.
ValidTitle(s) == Len(s) >= MinTitleLen /\ Len(s) <= MaxTitleLen

\* ------------------------------------------------------ request / response

NoReq ==
    [op |-> "none", actor |-> None, uid |-> None, tid |-> None, rid |-> None,
     tag_ids |-> NoTagIds, size |-> 0, limit |-> 0, offset |-> 0,
     every_minutes |-> None, start_at |-> NoTime, end_at |-> NoTime,
     is_enabled |-> NoBool, subtasks |-> <<>>, name |-> NoText, email |-> NoMail,
     role |-> NoRole,
     data |-> [title |-> NoText, description |-> NoText, due_at |-> NoTime,
               status |-> NoStatus, repeat_interval_minutes |-> None,
               tag_ids |-> NoTagIds]]

\* What a response tells: id, the row made or read; page, the ids listed; rm,
\* the paths os.remove was tried on; gone, how many rows left with a task;
\* subtasks_count, the counter of a TaskResponse.
NoOut == [id |-> None, page |-> <<>>, rm |-> {}, gone |-> 0, subtasks_count |-> 0]

Req(op, actor) == [NoReq EXCEPT !.op = op, !.actor = actor]

\* The response to req: res is "ok" or the error raised; again tells of a task
\* update that the previous request was the same one and went through.
Resp(req, res, out) ==
    [req |-> req, res |-> res, out |-> out,
     again |-> (req.op = "update_task" /\ last.req = req /\ last.res = "ok")]

\* A handler that raised before writing anything.
Fail(req, res) ==
    /\ last' = Resp(req, res, NoOut)
    /\ UNCHANGED <<users, tags, tasks, taskTag, subtasks, files, reminders, blobs,
                   nextId, cap, reg, sync, now, createdBy>>

\* A read handler that returned.
Read(req, out) ==
    /\ last' = Resp(req, "ok", out)
    /\ UNCHANGED <<users, tags, tasks, taskTag, subtasks, files, reminders, blobs,
                   nextId, cap, reg, sync, now, createdBy>>

\* ------------------------------------------------------------ store lookup

RowsById(table, id) == {r \in table : r.id = id}
Exists(table, id) == RowsById(table, id) # {}
Row(table, id) == CHOOSE r \in table : r.id = id

\* The identity a token was issued for at login: the id and role of the
\* seeded user, whatever the User row says now.
CurrentUserFromToken(actor) == CHOOSE u \in {Admin, Alice, Bob} : u.id = actor

\* get_current_user: the User row the token's user_id names, read on every call.
Authenticated(actor) == Exists(users, actor)
CurrentUser(actor) == Row(users, actor)

\* ensure_task_access without its owner test.
EnsureTaskAccessNoOwnerTest(task_user_id, current) == TRUE

\* ensure_task_access: TRUE when the call may go on.
EnsureTaskAccess(task_user_id, current) ==
    current.role = "admin" \/ task_user_id = current.id

\* The tag ownership test of update_tag / delete_tag: TRUE when the call may go on.
TagAccess(tag_user_id, current) ==
    ~(tag_user_id # current.id /\ current.role # "admin")

\* The id of the first User row made by register, after the seeded ones.
FirstNewUser == 4

\* A user_id parameter that anyone may set.
MayActAsAnyone(uid, current) == TRUE

\* The user_id query parameter of create_tag, list_tags, list_tasks,
\* calendar_view and create_task: FALSE raises "Admin access required".
MayActAs(uid, current) == uid = None \/ current.role = "admin"

TargetUser(uid, current) == IF uid = None THEN current.id ELSE uid

\* The history of who created a row: a function from row ids.
NoRows == [i \in {} |-> None]
Creator(current) == [actor |-> current.id, role |-> current.role]
Forget(f, ids) == [i \in DOMAIN f \ ids |-> f[i]]

\* ------------------------------------------------------------------- init

\* The store after init_db: the seeded users, every other table empty.
InitWith(seed, caps) ==
    /\ users = seed
    /\ cap = caps
    /\ tags = {}
    /\ tasks = {}
    /\ taskTag = EmptyBag
    /\ subtasks = {}
    /\ files = {}
    /\ reminders = {}
    /\ blobs = {}
    /\ nextId = [tag |-> 1, task |-> 1, subtask |-> 1, file |-> 1, reminder |-> 1,
                 user |-> FirstNewUser]
    /\ now = 0
    /\ reg = [p \in Workers |-> Idle]
    /\ sync = [p \in Workers |-> NoSync]
    /\ createdBy = [tag |-> NoRows, task |-> NoRows]
    /\ last = [req |-> NoReq, res |-> "ok", out |-> NoOut, again |-> FALSE]

\* ------------------------------------------------------------ Tags (/tags)

\* TagCreate / TagUpdate: Field(min_length=1, max_length=50) on the raw name.
ValidName(s) == Len(s) >= MinNameLen /\ Len(s) <= MaxNameLen

\* The Tag table's per-owner uniqueness of name.
TagNameTaken(user_id, name, except_id) ==
    \E g \in tags : g.user_id = user_id /\ g.name = name /\ g.id # except_id

\* The Tag table's reference to User.
TagOwnerKnown(user_id) == Exists(users, user_id)

\* POST /tags
CreateTag(actor, uid, name) ==
    LET req == [Req("create_tag", actor) EXCEPT !.uid = uid, !.name = Some(name)] IN
    IF ~Authenticated(actor) THEN Fail(req, "Unauthenticated")
    ELSE IF ~ValidName(name) THEN Fail(req, "ValidationError")
    ELSE LET current == CurrentUser(actor)
             target_user_id == TargetUser(uid, current)
             tag_id == nextId.tag
         IN IF ~MayActAs(uid, current) THEN Fail(req, "AdminRequired")
            ELSE IF \/ TagNameTaken(target_user_id, Strip(name), None)
                    \/ ~TagOwnerKnown(target_user_id)
                 THEN Fail(req, "StorageError")
            ELSE /\ tag_id <= cap.tag
                 /\ tags' = tags \cup {[id |-> tag_id, user_id |-> target_user_id,
                                        name |-> Strip(name)]}
                 /\ nextId' = [nextId EXCEPT !.tag = tag_id + 1]
                 /\ createdBy' = [createdBy EXCEPT
                                     !.tag = (tag_id :> Creator(current)) @@ @]
                 /\ last' = Resp(req, "ok", [NoOut EXCEPT !.id = tag_id])
                 /\ UNCHANGED <<reg, sync, cap, users, tasks, taskTag, subtasks, files, reminders,
                                blobs, now>>

\* GET /tags
ListTags(actor, uid) ==
    LET req == [Req("list_tags", actor) EXCEPT !.uid = uid] IN
    IF ~Authenticated(actor) THEN Fail(req, "Unauthenticated")
    ELSE IF ~MayActAs(uid, CurrentUser(actor)) THEN Fail(req, "AdminRequired")
    ELSE Read(req, NoOut)

\* PUT /tags/{tag_id}; has_name is FALSE when the body carries no name.
UpdateTag(actor, tag_id, has_name, name) ==
    LET req == [Req("update_tag", actor) EXCEPT
                   !.rid = tag_id, !.name = IF has_name THEN Some(name) ELSE NoText] IN
    IF ~Authenticated(actor) THEN Fail(req, "Unauthenticated")
    ELSE IF has_name /\ ~ValidName(name) THEN Fail(req, "ValidationError")
    ELSE IF ~Exists(tags, tag_id) THEN Fail(req, "NotFound")
    ELSE LET row == Row(tags, tag_id) IN
         IF ~TagAccess(row.user_id, CurrentUser(actor)) THEN Fail(req, "AccessDenied")
         ELSE IF ~has_name THEN Read(req, NoOut)
         ELSE IF TagNameTaken(row.user_id, Strip(name), tag_id)
              THEN Fail(req, "StorageError")
         ELSE /\ tags' = (tags \ {row}) \cup {[row EXCEPT !.name = Strip(name)]}
              /\ last' = Resp(req, "ok", NoOut)
              /\ UNCHANGED <<reg, sync, cap, users, tasks, taskTag, subtasks, files, reminders,
                             blobs, nextId, now, createdBy>>

\* The TaskTag rows that go with a deleted Tag or Task row.
WithoutTag(bag, tag_id) ==
    [r \in {x \in DOMAIN bag : x.tag_id # tag_id} |-> bag[r]]
WithoutTask(bag, task_id) ==
    [r \in {x \in DOMAIN bag : x.task_id # task_id} |-> bag[r]]

\* DELETE /tags/{tag_id}
DeleteTag(actor, tag_id) ==
    LET req == [Req("delete_tag", actor) EXCEPT !.rid = tag_id] IN
    IF ~Authenticated(actor) THEN Fail(req, "Unauthenticated")
    ELSE IF ~Exists(tags, tag_id) THEN Fail(req, "NotFound")
    ELSE LET row == Row(tags, tag_id) IN
         IF ~TagAccess(row.user_id, CurrentUser(actor)) THEN Fail(req, "AccessDenied")
         ELSE /\ tags' = tags \ {row}
              /\ taskTag' = WithoutTag(taskTag, tag_id)
              /\ createdBy' = [createdBy EXCEPT !.tag = Forget(@, {tag_id})]
              /\ last' = Resp(req, "ok", NoOut)
              /\ UNCHANGED <<reg, sync, cap, users, tasks, subtasks, files, reminders, blobs,
                             nextId, now>>

\* ---------------------------------------------------------- Tasks (/tasks)

\* INSERT OR IGNORE INTO TaskTag: (task_id, tag_id) is the table's key.
PlainInsert(bag, row) == bag (+) SetToBag({row})
InsertOrIgnore(bag, row) == IF BagIn(row, bag) THEN bag ELSE PlainInsert(bag, row)

RECURSIVE InsertLinks(_, _, _)
InsertLinks(bag, task_id, ids) ==
    IF ids = <<>> THEN bag
    ELSE InsertLinks(InsertOrIgnore(bag, [task_id |-> task_id, tag_id |-> Head(ids)]),
                     task_id, Tail(ids))

\* sync_task_tags, the check: the ids that are not tags of current_user_id.
BadTagIds(current_user_id, tag_ids) ==
    LET ok_ids == {g.id : g \in {x \in tags : x.user_id = current_user_id}} IN
    IF tag_ids.given THEN {tid \in Range(tag_ids.ids) : tid \notin ok_ids} ELSE {}

\* A sync whose DELETE has no WHERE task_id = ?.
SyncClearsEveryTask(bag, task_id, tag_ids) ==
    IF ~tag_ids.given THEN bag ELSE InsertLinks(EmptyBag, task_id, tag_ids.ids)

\* A sync that inserts without the DELETE before.
SyncKeepsOldLinks(bag, task_id, tag_ids) ==
    IF ~tag_ids.given THEN bag ELSE InsertLinks(bag, task_id, tag_ids.ids)

\* sync_task_tags, the write: delete all of the task's rows, insert one per id.
SyncTaskTags(bag, task_id, tag_ids) ==
    IF ~tag_ids.given THEN bag
    ELSE InsertLinks(WithoutTask(bag, task_id), task_id, tag_ids.ids)

\* TaskCreate.repeat_interval_minutes: None, or Field(ge=1, le=525600).
ValidRepeat(m) == m = None \/ (m >= MinRepeat /\ m <= MaxRepeat)

\* create_task: the entries whose stripped title is not empty, the first 50.
RECURSIVE KeptInline(_)
KeptInline(sts) ==
    IF sts = <<>> THEN <<>>
    ELSE IF Strip(Head(sts).title) # <<>> THEN <<Head(sts)>> \o KeptInline(Tail(sts))
    ELSE KeptInline(Tail(sts))

\* Inline subtasks taken without the [:50].
InlineSubtasksUncapped(sts) == KeptInline(sts)

InlineSubtasks(sts) == SubSeq(KeptInline(sts), 1, IF Len(KeptInline(sts)) < InlineCap
                                                  THEN Len(KeptInline(sts)) ELSE InlineCap)

InlineRows(sts, task_id, user_id, first_id) ==
    {[id |-> first_id + i - 1, task_id |-> task_id, user_id |-> user_id,
      title |-> Strip(sts[i].title), is_done |-> sts[i].is_done] : i \in 1..Len(sts)}

\* task_counters: SELECT COUNT(*) FROM SubTask WHERE task_id = ?
SubtasksCount(rows, task_id) == Cardinality({r \in rows : r.task_id = task_id})

\* The owner written on a Task row by create_task.
TaskOwnerOnCreate(uid, current) == TargetUser(uid, current)

\* POST /tasks
CreateTask(actor, uid, data) ==
    LET req == [Req("create_task", actor) EXCEPT !.uid = uid, !.tag_ids = data.tag_ids,
                                                 !.subtasks = data.subtasks,
                                                 !.name = Some(data.title)] IN
    IF ~Authenticated(actor) THEN Fail(req, "Unauthenticated")
    ELSE IF \/ ~ValidTitle(data.title)
            \/ ~ValidRepeat(data.repeat_interval_minutes)
            \/ \E i \in 1..Len(data.subtasks) : ~ValidTitle(data.subtasks[i].title)
         THEN Fail(req, "ValidationError")
    ELSE LET current == CurrentUser(actor)
             target_user_id == TaskOwnerOnCreate(uid, current)
             task_id == nextId.task
             row == [id |-> task_id, user_id |-> target_user_id,
                     title |-> Strip(data.title), description |-> data.description,
                     due_at |-> data.due_at, status |-> data.status,
                     repeat_interval_minutes |-> data.repeat_interval_minutes,
                     created_at |-> now]
             sts == InlineSubtasks(data.subtasks)
         IN IF ~MayActAs(uid, current) THEN Fail(req, "AdminRequired")
            ELSE IF uid # None /\ ~Exists(users, uid) THEN Fail(req, "NotFound")
            ELSE /\ task_id <= cap.task
                 /\ tasks' = tasks \cup {row}
                 /\ nextId' = [nextId EXCEPT !.task = task_id + 1,
                                             !.subtask = IF BadTagIds(target_user_id, data.tag_ids) = {}
                                                         THEN @ + Len(sts) ELSE @]
                 /\ createdBy' = [createdBy EXCEPT
                                     !.task = (task_id :> Creator(current)) @@ @]
                 /\ IF BadTagIds(target_user_id, data.tag_ids) # {}
                    THEN /\ last' = Resp(req, "UnknownTagIds", [NoOut EXCEPT !.id = task_id])
                         /\ UNCHANGED <<taskTag, subtasks>>
                    ELSE /\ nextId.subtask + Len(sts) - 1 <= cap.subtask
                         /\ taskTag' = SyncTaskTags(taskTag, task_id, data.tag_ids)
                         /\ subtasks' = subtasks \cup
                                InlineRows(sts, task_id, target_user_id, nextId.subtask)
                         /\ last' = Resp(req, "ok", [NoOut EXCEPT
                                !.id = task_id,
                                !.subtasks_count = SubtasksCount(subtasks', task_id)])
                 /\ UNCHANGED <<reg, sync, cap, users, tags, files, reminders, blobs, now>>

\* GET /tasks/{task_id}
GetTask(actor, task_id) ==
    LET req == [Req("get_task", actor) EXCEPT !.tid = task_id] IN
    IF ~Authenticated(actor) THEN Fail(req, "Unauthenticated")
    ELSE IF ~Exists(tasks, task_id) THEN Fail(req, "NotFound")
    ELSE IF ~EnsureTaskAccess(Row(tasks, task_id).user_id, CurrentUser(actor))
         THEN Fail(req, "AccessDenied")
    ELSE Read(req, [NoOut EXCEPT !.id = task_id])

\* An UPDATE that sets every column from the request, supplied or not.
UpdatedTaskOverwrites(row, data) ==
    [row EXCEPT
        !.title = Strip(data.title.v),
        !.description = data.description,
        !.due_at = data.due_at,
        !.status = data.status.v,
        !.repeat_interval_minutes = data.repeat_interval_minutes]

\* update_task: the row after the UPDATE of the supplied fields.
UpdatedTask(row, data) ==
    [row EXCEPT
        !.title = IF data.title.set THEN Strip(data.title.v) ELSE @,
        !.description = IF data.description.set THEN data.description ELSE @,
        !.due_at = IF data.due_at.set THEN data.due_at ELSE @,
        !.status = IF data.status.set THEN data.status.v ELSE @,
        !.repeat_interval_minutes =
            IF data.repeat_interval_minutes # None THEN data.repeat_interval_minutes ELSE @]

\* An update that resolves tag_ids against the caller.
TagOwnerFromCaller(row, current) == current.id

\* The user whose tags update_task resolves tag_ids against.
TagOwnerOnUpdate(row, current) == row.user_id

\* PUT /tasks/{task_id}
UpdateTask(actor, task_id, data) ==
    LET req == [Req("update_task", actor) EXCEPT !.tid = task_id,
                                                 !.tag_ids = data.tag_ids,
                                                 !.name = data.title,
                                                 !.data = data] IN
    IF ~Authenticated(actor) THEN Fail(req, "Unauthenticated")
    ELSE IF \/ (data.title.set /\ ~ValidTitle(data.title.v))
            \/ ~ValidRepeat(data.repeat_interval_minutes)
         THEN Fail(req, "ValidationError")
    ELSE IF ~Exists(tasks, task_id) THEN Fail(req, "NotFound")
    ELSE LET row == Row(tasks, task_id)
             current == CurrentUser(actor)
             owner == TagOwnerOnUpdate(row, current)
         IN IF ~EnsureTaskAccess(row.user_id, current) THEN Fail(req, "AccessDenied")
            ELSE /\ tasks' = (tasks \ {row}) \cup {UpdatedTask(row, data)}
                 /\ IF BadTagIds(owner, data.tag_ids) # {}
                    THEN /\ last' = Resp(req, "UnknownTagIds", NoOut)
                         /\ UNCHANGED taskTag
                    ELSE /\ taskTag' = SyncTaskTags(taskTag, task_id, data.tag_ids)
                         /\ last' = Resp(req, "ok", [NoOut EXCEPT !.id = task_id])
                 /\ UNCHANGED <<reg, sync, cap, users, tags, subtasks, files, reminders, blobs,
                                nextId, now, createdBy>>

\* PUT /tasks/{task_id} on worker p, up to the SELECT of sync_task_tags: the
\* gates, the UPDATE of the supplied fields and the test of tag_ids against
\* the tags of the task's owner.  The request carries tag_ids.
UpdateTaskBegin(p, actor, task_id, data) ==
    LET req == [Req("update_task", actor) EXCEPT !.tid = task_id,
                                                 !.tag_ids = data.tag_ids,
                                                 !.name = data.title,
                                                 !.data = data] IN
    /\ sync[p].pc = "idle"
    /\ data.tag_ids.given
    /\ IF ~Authenticated(actor) THEN Fail(req, "Unauthenticated")
       ELSE IF \/ (data.title.set /\ ~ValidTitle(data.title.v))
               \/ ~ValidRepeat(data.repeat_interval_minutes)
            THEN Fail(req, "ValidationError")
       ELSE IF ~Exists(tasks, task_id) THEN Fail(req, "NotFound")
       ELSE LET row == Row(tasks, task_id)
                current == CurrentUser(actor)
                owner == TagOwnerOnUpdate(row, current)
            IN IF ~EnsureTaskAccess(row.user_id, current) THEN Fail(req, "AccessDenied")
               ELSE /\ tasks' = (tasks \ {row}) \cup {UpdatedTask(row, data)}
                    /\ IF BadTagIds(owner, data.tag_ids) # {}
                       THEN /\ last' = Resp(req, "UnknownTagIds", NoOut)
                            /\ UNCHANGED sync
                       ELSE /\ sync' = [sync EXCEPT ![p] =
                                           [pc |-> "delete", actor |-> actor,
                                            tid |-> task_id, asked |-> data.tag_ids.ids,
                                            ids |-> data.tag_ids.ids]]
                            /\ UNCHANGED last
                    /\ UNCHANGED <<reg, cap, users, tags, taskTag, subtasks, files,
                                   reminders, blobs, nextId, now, createdBy>>

\* sync_task_tags on worker p: DELETE FROM TaskTag WHERE task_id = ?, committed.
SyncDelete(p) ==
    /\ sync[p].pc = "delete"
    /\ taskTag' = WithoutTask(taskTag, sync[p].tid)
    /\ sync' = [sync EXCEPT ![p].pc = "insert"]
    /\ UNCHANGED <<reg, cap, users, tags, tasks, subtasks, files, reminders, blobs,
                   nextId, now, createdBy, last>>

\* sync_task_tags on worker p: one INSERT OR IGNORE of the loop, committed.
SyncInsert(p) ==
    /\ sync[p].pc = "insert"
    /\ sync[p].ids # <<>>
    /\ taskTag' = InsertOrIgnore(taskTag, [task_id |-> sync[p].tid,
                                           tag_id |-> Head(sync[p].ids)])
    /\ sync' = [sync EXCEPT ![p].ids = Tail(@)]
    /\ UNCHANGED <<reg, cap, users, tags, tasks, subtasks, files, reminders, blobs,
                   nextId, now, createdBy, last>>

\* PUT /tasks/{task_id} on worker p, after the loop: the response.
UpdateTaskReturn(p) ==
    LET req == [Req("update_task", sync[p].actor) EXCEPT
                    !.tid = sync[p].tid, !.tag_ids = TagIdList(sync[p].asked)] IN
    /\ sync[p].pc = "insert"
    /\ sync[p].ids = <<>>
    /\ sync' = [sync EXCEPT ![p].pc = "idle"]
    /\ last' = Resp(req, "ok", [NoOut EXCEPT !.id = sync[p].tid])
    /\ UNCHANGED <<reg, cap, users, tags, tasks, taskTag, subtasks, files, reminders,
                   blobs, nextId, now, createdBy>>

\* The rows of a child table that go with a deleted Task row.
WithoutTaskRows(table, task_id) == {r \in table : r.task_id # task_id}

\* A delete that leaves the stored bytes alone.
RemoveNothing(rows) == {}

\* A removal whose failure leaves the handler.
RemoveOutcomeRaises(failed) == IF failed THEN "StorageError" ELSE "ok"

\* delete_task / delete_file: os.remove sits in try / except Exception with a
\* logger.warning, so the handler goes on whether or not it failed.
RemoveOutcome(failed) == "ok"

\* delete_task / delete_file: the paths os.remove is tried on.
RemoveTried(rows) == {f.storage_path : f \in rows}

\* DELETE /tasks/{task_id}; os.remove raises on the paths in stuck.
DeleteTask(actor, task_id, stuck) ==
    LET req == [Req("delete_task", actor) EXCEPT !.tid = task_id] IN
    IF ~Authenticated(actor) THEN Fail(req, "Unauthenticated")
    ELSE IF ~Exists(tasks, task_id) THEN Fail(req, "NotFound")
    ELSE LET row == Row(tasks, task_id)
             tried == RemoveTried({f \in files : f.task_id = task_id})
         IN IF ~EnsureTaskAccess(row.user_id, CurrentUser(actor))
            THEN Fail(req, "AccessDenied")
            ELSE IF RemoveOutcome(stuck \cap tried \cap blobs # {}) # "ok"
            THEN Fail(req, RemoveOutcome(TRUE))
            ELSE /\ stuck \subseteq tried \cap blobs
                 /\ blobs' = blobs \ (tried \ stuck)
                 /\ tasks' = tasks \ {row}
                 /\ taskTag' = WithoutTask(taskTag, task_id)
                 /\ subtasks' = WithoutTaskRows(subtasks, task_id)
                 /\ files' = WithoutTaskRows(files, task_id)
                 /\ reminders' = WithoutTaskRows(reminders, task_id)
                 /\ createdBy' = [createdBy EXCEPT !.task = Forget(@, {task_id})]
                 /\ last' = Resp(req, "ok",
                        [NoOut EXCEPT !.rm = tried,
                                      !.gone = Cardinality(subtasks \ subtasks')
                                             + Cardinality(files \ files')
                                             + Cardinality(reminders \ reminders')
                                             + BagCardinality(taskTag)
                                             - BagCardinality(taskTag')])
                 /\ UNCHANGED <<reg, sync, cap, users, tags, nextId, now>>

\* ------------------------------------------------------- Users (/users)

\* str.lower() on one character of the letters used here.
LowerChar(c) ==
    CASE c = "A" -> "a" [] c = "B" -> "b" [] c = "C" -> "c" [] OTHER -> c

\* UserCreate.validate_email: return v.lower()
Lower(s) == [i \in 1..Len(s) |-> LowerChar(s[i])]

LowerMail(e) == [local |-> Lower(e.local), domain |-> Lower(e.domain)]

\* UserCreate.validate_email: re.match(EMAIL_REGEX, v), a local part, an @ and
\* a domain.
ValidEmail(e) == e.local # <<>> /\ e.domain # <<>>

\* register: SELECT id FROM User WHERE email = ?
EmailRegistered(email) == \E u \in users : u.email = email

\* The User table's uniqueness of email, met by the INSERT.
EmailTaken(email) == \E u \in users : u.email = email

\* POST /register, first statement: worker p validates the body and looks the
\* lower-cased email up; found, it answers "Email already registered".
RegisterSelect(p, email, role) ==
    LET req == [Req("register", None) EXCEPT !.email = email] IN
    /\ reg[p].pc = "idle"
    /\ IF ~ValidEmail(email) THEN Fail(req, "ValidationError")
       ELSE IF EmailRegistered(LowerMail(email)) THEN Fail(req, "DuplicateEmail")
       ELSE /\ reg' = [reg EXCEPT ![p] = [pc |-> "selected",
                                          email |-> LowerMail(email), role |-> role]]
            /\ UNCHANGED <<users, tags, tasks, taskTag, subtasks, files, reminders,
                           blobs, nextId, cap, now, sync, createdBy, last>>

\* POST /register, second statement: worker p inserts the User row; execute_db
\* turns a refused INSERT into "Database error".
RegisterInsert(p) ==
    LET req == [Req("register", None) EXCEPT !.email = reg[p].email]
        user_id == nextId.user
    IN /\ reg[p].pc = "selected"
       /\ reg' = [reg EXCEPT ![p] = Idle]
       /\ IF EmailTaken(reg[p].email)
          THEN /\ last' = Resp(req, "StorageError", NoOut)
               /\ UNCHANGED <<users, nextId>>
          ELSE /\ users' = users \cup {[id |-> user_id, role |-> reg[p].role,
                                         email |-> reg[p].email]}
               /\ nextId' = [nextId EXCEPT !.user = user_id + 1]
               /\ last' = Resp(req, "ok", [NoOut EXCEPT !.id = user_id])
       /\ UNCHANGED <<tags, tasks, taskTag, subtasks, files, reminders, blobs, cap,
                      now, sync, createdBy>>

\* get_current_admin: FALSE raises "Admin access required".
IsAdmin(current) == current.role = "admin"

\* PUT /users/{user_id}: the role, when the body has one, replaces the stored
\* one (the name is not part of the model's User rows).
UpdateUser(actor, user_id, role) ==
    LET req == [Req("update_user", actor) EXCEPT !.uid = user_id, !.role = role] IN
    IF ~Authenticated(actor) THEN Fail(req, "Unauthenticated")
    ELSE IF ~IsAdmin(CurrentUser(actor)) THEN Fail(req, "AdminRequired")
    ELSE IF ~Exists(users, user_id) THEN Fail(req, "NotFound")
    ELSE LET row == Row(users, user_id) IN
         /\ users' = (users \ {row})
                        \cup {[row EXCEPT !.role = IF role.set THEN role.v ELSE @]}
         /\ last' = Resp(req, "ok", [NoOut EXCEPT !.id = user_id])
         /\ UNCHANGED <<reg, sync, cap, tags, tasks, taskTag, subtasks, files,
                        reminders, blobs, nextId, now, createdBy>>

\* The ids of the Task rows that go with a deleted User row.
TasksOfUser(user_id) == {t.id : t \in {x \in tasks : x.user_id = user_id}}

\* The rows of a table that stay when a User row goes: those of other users
\* on tasks of other users.
WithoutUserRows(table, user_id) ==
    {r \in table : r.user_id # user_id /\ r.task_id \notin TasksOfUser(user_id)}

\* DELETE /users/{user_id}: one DELETE FROM User; the rows that hang on the
\* user go by the schema's cascades; no stored file is touched.
DeleteUser(actor, user_id) ==
    LET req == [Req("delete_user", actor) EXCEPT !.uid = user_id] IN
    IF ~Authenticated(actor) THEN Fail(req, "Unauthenticated")
    ELSE IF ~IsAdmin(CurrentUser(actor)) THEN Fail(req, "AdminRequired")
    ELSE IF ~Exists(users, user_id) THEN Fail(req, "NotFound")
    ELSE /\ users' = users \ {Row(users, user_id)}
         /\ tasks' = {t \in tasks : t.user_id # user_id}
         /\ tags' = {g \in tags : g.user_id # user_id}
         /\ taskTag' = [r \in {x \in DOMAIN taskTag :
                                  /\ x.task_id \notin TasksOfUser(user_id)
                                  /\ x.tag_id \notin {g.id : g \in tags \ tags'}}
                          |-> taskTag[r]]
         /\ subtasks' = WithoutUserRows(subtasks, user_id)
         /\ files' = WithoutUserRows(files, user_id)
         /\ reminders' = WithoutUserRows(reminders, user_id)
         /\ createdBy' = [createdBy EXCEPT
                             !.task = Forget(@, TasksOfUser(user_id)),
                             !.tag = Forget(@, {g.id : g \in tags \ tags'})]
         /\ last' = Resp(req, "ok", NoOut)
         /\ UNCHANGED <<reg, sync, cap, blobs, nextId, now>>

\* generate_next_occurrence: datetime.fromisoformat(due_at), made UTC when it
\* has no offset, plus timedelta(minutes=...), back to ISO text.
NextDue(due_at, minutes) == At(due_at.t + minutes, TRUE)

\* datetime + timedelta raises OverflowError past datetime.max; the handler
\* does the sum outside its try block, so the request ends in a 500.
DateOverflows(due_at, minutes) == due_at.t + minutes > DateTimeMax

\* generate_next_occurrence: the Task row inserted.
NextTask(row, new_id) ==
    [id |-> new_id, user_id |-> row.user_id, title |-> row.title,
     description |-> row.description,
     due_at |-> NextDue(row.due_at, row.repeat_interval_minutes),
     status |-> "todo", repeat_interval_minutes |-> row.repeat_interval_minutes,
     created_at |-> now]

\* generate_next_occurrence: the tag_id of every TaskTag row of the source.
TagLinks(bag, task_id) ==
    {r.tag_id : r \in {x \in DOMAIN bag : x.task_id = task_id}}

RECURSIVE CopyLinks(_, _, _)
CopyLinks(bag, new_id, tag_ids) ==
    IF tag_ids = {} THEN bag
    ELSE LET tid == CHOOSE x \in tag_ids : TRUE IN
         CopyLinks(InsertOrIgnore(bag, [task_id |-> new_id, tag_id |-> tid]),
                   new_id, tag_ids \ {tid})

\* POST /tasks/{task_id}/generate-next
GenerateNext(actor, task_id) ==
    LET req == [Req("generate_next", actor) EXCEPT !.tid = task_id] IN
    IF ~Authenticated(actor) THEN Fail(req, "Unauthenticated")
    ELSE IF ~Exists(tasks, task_id) THEN Fail(req, "NotFound")
    ELSE LET row == Row(tasks, task_id)
             current == CurrentUser(actor)
             new_id == nextId.task
         IN IF ~EnsureTaskAccess(row.user_id, current) THEN Fail(req, "AccessDenied")
            ELSE IF row.repeat_interval_minutes = None THEN Fail(req, "NotRepeating")
            ELSE IF ~row.due_at.set THEN Fail(req, "NoDueDate")
            ELSE IF DateOverflows(row.due_at, row.repeat_interval_minutes)
                 THEN Fail(req, "UnhandledError")
            ELSE /\ new_id <= cap.task
                 /\ tasks' = tasks \cup {NextTask(row, new_id)}
                 /\ taskTag' = CopyLinks(taskTag, new_id, TagLinks(taskTag, task_id))
                 /\ nextId' = [nextId EXCEPT !.task = new_id + 1]
                 /\ createdBy' = [createdBy EXCEPT
                                     !.task = (new_id :> Creator(current)) @@ @]
                 /\ last' = Resp(req, "ok", [NoOut EXCEPT !.id = new_id])
                 /\ UNCHANGED <<reg, sync, cap, users, tags, subtasks, files, reminders, blobs, now>>

\* A limit parameter declared without ge and le.
QueryLimitAny(limit) == TRUE

\* list_tasks: limit = Query(20, ge=1, le=100), offset = Query(0, ge=0).
QueryLimitOk(limit) == limit >= MinLimit /\ limit <= MaxLimit
QueryOffsetOk(offset) == offset >= MinOffset

Min(a, b) == IF a < b THEN a ELSE b
Max(a, b) == IF a > b THEN a ELSE b

\* normalize_pagination
NormalizeLimit(limit) == Min(Max(limit, MinLimit), MaxLimit)
NormalizeOffset(offset) == Max(offset, MinOffset)

\* ORDER BY COALESCE(due_at, created_at) ASC
SortKey(t) == IF t.due_at.set THEN t.due_at.t ELSE t.created_at

\* Every order of rows the ORDER BY allows (rows of equal key in any order).
Orderings(rows) ==
    {s \in [1..Cardinality(rows) -> rows] :
        /\ \A i, j \in DOMAIN s : i # j => s[i] # s[j]
        /\ \A i, j \in DOMAIN s : i < j => SortKey(s[i]) <= SortKey(s[j])}

\* LIMIT ? OFFSET ? over an ordered result, as ids.
Page(s, limit, offset) ==
    [i \in 1..Max(Min(limit, Len(s) - offset), 0) |-> s[offset + i].id]

\* list_tasks: the rows the WHERE clause keeps.
ListedTasks(target_user_id, status_filter) ==
    {t \in tasks : /\ t.user_id = target_user_id
                   /\ (status_filter.set => t.status = status_filter.v)}

\* GET /tasks (search, due_from and due_to not supplied)
ListTasks(actor, uid, status_filter, limit, offset) ==
    LET req == [Req("list_tasks", actor) EXCEPT !.uid = uid, !.limit = limit,
                                                !.offset = offset] IN
    IF ~Authenticated(actor) THEN Fail(req, "Unauthenticated")
    ELSE IF ~QueryLimitOk(limit) \/ ~QueryOffsetOk(offset)
         THEN Fail(req, "ValidationError")
    ELSE LET current == CurrentUser(actor) IN
         IF ~MayActAs(uid, current) THEN Fail(req, "AdminRequired")
         ELSE \E s \in Orderings(ListedTasks(TargetUser(uid, current), status_filter)) :
                 Read(req, [NoOut EXCEPT
                     !.page = Page(s, NormalizeLimit(limit), NormalizeOffset(offset))])

\* GET /calendar
CalendarView(actor, uid, date_from, date_to) ==
    LET req == [Req("calendar_view", actor) EXCEPT !.uid = uid] IN
    IF ~Authenticated(actor) THEN Fail(req, "Unauthenticated")
    ELSE LET current == CurrentUser(actor)
             rows == {t \in tasks : /\ t.user_id = TargetUser(uid, current)
                                    /\ t.due_at.set
                                    /\ t.due_at.t >= date_from
                                    /\ t.due_at.t <= date_to}
         IN IF ~MayActAs(uid, current) THEN Fail(req, "AdminRequired")
            ELSE \E s \in Orderings(rows) :
                    Read(req, [NoOut EXCEPT !.page = Page(s, Len(s), 0)])

\* ---------------------------------------------------- SubTasks (/subtasks)

\* The gate of every handler addressed at a task: the task row, then
\* ensure_task_access on its owner.  "ok" lets the handler go on.
TaskGate(actor, task_id) ==
    IF ~Exists(tasks, task_id) THEN "NotFound"
    ELSE IF ~EnsureTaskAccess(Row(tasks, task_id).user_id, CurrentUser(actor))
         THEN "AccessDenied"
    ELSE "ok"

\* A child row that takes the caller's id.
ChildOwnerFromCaller(task, current) == current.id

\* The user_id written on a child row: the parent task's, not the caller's.
ChildOwner(task, current) == task.user_id

\* POST /subtasks
CreateSubtask(actor, task_id, title, is_done) ==
    LET req == [Req("create_subtask", actor) EXCEPT !.tid = task_id] IN
    IF ~Authenticated(actor) THEN Fail(req, "Unauthenticated")
    ELSE IF ~ValidTitle(title) THEN Fail(req, "ValidationError")
    ELSE IF TaskGate(actor, task_id) # "ok" THEN Fail(req, TaskGate(actor, task_id))
    ELSE LET sid == nextId.subtask IN
         /\ sid <= cap.subtask
         /\ subtasks' = subtasks \cup
                {[id |-> sid, task_id |-> task_id,
                  user_id |-> ChildOwner(Row(tasks, task_id), CurrentUser(actor)),
                  title |-> Strip(title), is_done |-> is_done]}
         /\ nextId' = [nextId EXCEPT !.subtask = sid + 1]
         /\ last' = Resp(req, "ok", [NoOut EXCEPT !.id = sid])
         /\ UNCHANGED <<reg, sync, cap, users, tags, tasks, taskTag, files, reminders, blobs, now,
                        createdBy>>

\* GET /subtasks
ListSubtasks(actor, task_id) ==
    LET req == [Req("list_subtasks", actor) EXCEPT !.tid = task_id] IN
    IF ~Authenticated(actor) THEN Fail(req, "Unauthenticated")
    ELSE IF TaskGate(actor, task_id) # "ok" THEN Fail(req, TaskGate(actor, task_id))
    ELSE Read(req, NoOut)

\* The gate of a handler addressed at a child row by its id: the row, then
\* its parent task, then ensure_task_access on the task's owner.
ChildGate(actor, table, id) ==
    IF ~Exists(table, id) THEN "NotFound"
    ELSE TaskGate(actor, Row(table, id).task_id)

\* PUT /subtasks/{subtask_id}
UpdateSubtask(actor, subtask_id, title, is_done) ==
    LET req == [Req("update_subtask", actor) EXCEPT !.rid = subtask_id] IN
    IF ~Authenticated(actor) THEN Fail(req, "Unauthenticated")
    ELSE IF title.set /\ ~ValidTitle(title.v) THEN Fail(req, "ValidationError")
    ELSE IF ChildGate(actor, subtasks, subtask_id) # "ok"
         THEN Fail(req, ChildGate(actor, subtasks, subtask_id))
    ELSE LET row == Row(subtasks, subtask_id) IN
         /\ subtasks' = (subtasks \ {row}) \cup
                {[row EXCEPT !.title = IF title.set THEN Strip(title.v) ELSE @,
                             !.is_done = IF is_done.set THEN is_done.v ELSE @]}
         /\ last' = Resp(req, "ok", NoOut)
         /\ UNCHANGED <<reg, sync, cap, users, tags, tasks, taskTag, files, reminders, blobs, nextId,
                        now, createdBy>>

\* DELETE /subtasks/{subtask_id}
DeleteSubtask(actor, subtask_id) ==
    LET req == [Req("delete_subtask", actor) EXCEPT !.rid = subtask_id] IN
    IF ~Authenticated(actor) THEN Fail(req, "Unauthenticated")
    ELSE IF ChildGate(actor, subtasks, subtask_id) # "ok"
         THEN Fail(req, ChildGate(actor, subtasks, subtask_id))
    ELSE /\ subtasks' = subtasks \ {Row(subtasks, subtask_id)}
         /\ last' = Resp(req, "ok", NoOut)
         /\ UNCHANGED <<reg, sync, cap, users, tags, tasks, taskTag, files, reminders, blobs, nextId,
                        now, createdBy>>

\* ---------------------------------------------------------- Files (/files)

\* upload_file: the size test; "ok" lets the upload go on.
\* A size test that turns away a file of exactly the largest size.
SizeGateOffByOne(size) ==
    IF size = 0 THEN "EmptyFile"
    ELSE IF size >= MaxUploadBytes THEN "TooLarge"
    ELSE "ok"

SizeGate(size) ==
    IF size = 0 THEN "EmptyFile"
    ELSE IF size > MaxUploadBytes THEN "TooLarge"
    ELSE "ok"

\* POST /files; the storage path is fresh (a uuid4), here the row's id.
UploadFile(actor, task_id, size) ==
    LET req == [Req("upload_file", actor) EXCEPT !.tid = task_id, !.size = size] IN
    IF ~Authenticated(actor) THEN Fail(req, "Unauthenticated")
    ELSE IF TaskGate(actor, task_id) # "ok" THEN Fail(req, TaskGate(actor, task_id))
    ELSE IF SizeGate(size) # "ok" THEN Fail(req, SizeGate(size))
    ELSE LET fid == nextId.file IN
         /\ fid <= cap.file
         /\ blobs' = blobs \cup {fid}
         /\ files' = files \cup
                {[id |-> fid, task_id |-> task_id,
                  user_id |-> ChildOwner(Row(tasks, task_id), CurrentUser(actor)),
                  size_bytes |-> size, storage_path |-> fid]}
         /\ nextId' = [nextId EXCEPT !.file = fid + 1]
         /\ last' = Resp(req, "ok", [NoOut EXCEPT !.id = fid])
         /\ UNCHANGED <<reg, sync, cap, users, tags, tasks, taskTag, subtasks, reminders, now,
                        createdBy>>

\* GET /files
ListFiles(actor, task_id) ==
    LET req == [Req("list_files", actor) EXCEPT !.tid = task_id] IN
    IF ~Authenticated(actor) THEN Fail(req, "Unauthenticated")
    ELSE IF TaskGate(actor, task_id) # "ok" THEN Fail(req, TaskGate(actor, task_id))
    ELSE Read(req, NoOut)

\* GET /files/{file_id}/download
DownloadFile(actor, file_id) ==
    LET req == [Req("download_file", actor) EXCEPT !.rid = file_id] IN
    IF ~Authenticated(actor) THEN Fail(req, "Unauthenticated")
    ELSE IF ChildGate(actor, files, file_id) # "ok"
         THEN Fail(req, ChildGate(actor, files, file_id))
    ELSE IF Row(files, file_id).storage_path \notin blobs
         THEN Fail(req, "MissingOnDisk")
    ELSE Read(req, [NoOut EXCEPT !.id = file_id])

\* DELETE /files/{file_id}; os.remove raises when stuck.
DeleteFile(actor, file_id, stuck) ==
    LET req == [Req("delete_file", actor) EXCEPT !.rid = file_id] IN
    IF ~Authenticated(actor) THEN Fail(req, "Unauthenticated")
    ELSE IF ChildGate(actor, files, file_id) # "ok"
         THEN Fail(req, ChildGate(actor, files, file_id))
    ELSE LET row == Row(files, file_id) IN
         IF RemoveOutcome(stuck /\ row.storage_path \in blobs) # "ok"
         THEN Fail(req, RemoveOutcome(TRUE))
         ELSE
         /\ stuck => row.storage_path \in blobs
         /\ blobs' = IF stuck THEN blobs ELSE blobs \ {row.storage_path}
         /\ files' = files \ {row}
         /\ last' = Resp(req, "ok", [NoOut EXCEPT !.rm = RemoveTried({row})])
         /\ UNCHANGED <<reg, sync, cap, users, tags, tasks, taskTag, subtasks, reminders, nextId,
                        now, createdBy>>

\* ------------------------------------------- Reminders (/tasks/{id}/reminders)

\* ReminderCreate.every_minutes: Field(ge=1, le=10080).
ValidEvery(m) == m >= MinEvery /\ m <= MaxEvery

\* A next run counted from the time of the write whatever start_at is.
ComputeNextRunFromNow(start_at, every_minutes) == now + every_minutes

\* compute_next_run: start_at parses whenever it is set (it is ISO text
\* written by isoformat()).
ComputeNextRun(start_at, every_minutes) ==
    (IF start_at.set THEN start_at.t ELSE now) + every_minutes

\* compute_next_run adds the timedelta outside its try block: past datetime.max
\* the OverflowError leaves the handler, before its INSERT or UPDATE.
NextRunOverflows(start_at, every_minutes) ==
    ComputeNextRun(start_at, every_minutes) > DateTimeMax

\* POST /tasks/{task_id}/reminders
CreateReminder(actor, task_id, every_minutes, start_at, end_at, is_enabled) ==
    LET req == [Req("create_reminder", actor) EXCEPT
                   !.tid = task_id, !.every_minutes = every_minutes,
                   !.start_at = start_at, !.end_at = end_at,
                   !.is_enabled = Some(is_enabled)] IN
    IF ~Authenticated(actor) THEN Fail(req, "Unauthenticated")
    ELSE IF ~ValidEvery(every_minutes) THEN Fail(req, "ValidationError")
    ELSE IF TaskGate(actor, task_id) # "ok" THEN Fail(req, TaskGate(actor, task_id))
    ELSE IF NextRunOverflows(start_at, every_minutes) THEN Fail(req, "UnhandledError")
    ELSE LET rid == nextId.reminder IN
         /\ rid <= cap.reminder
         /\ reminders' = reminders \cup
                {[id |-> rid, task_id |-> task_id,
                  user_id |-> ChildOwner(Row(tasks, task_id), CurrentUser(actor)),
                  every_minutes |-> every_minutes, start_at |-> start_at,
                  end_at |-> end_at, is_enabled |-> is_enabled,
                  next_run_at |-> ComputeNextRun(start_at, every_minutes)]}
         /\ nextId' = [nextId EXCEPT !.reminder = rid + 1]
         /\ last' = Resp(req, "ok", [NoOut EXCEPT !.id = rid])
         /\ UNCHANGED <<reg, sync, cap, users, tags, tasks, taskTag, subtasks, files, blobs, now,
                        createdBy>>

\* GET /tasks/{task_id}/reminders
ListReminders(actor, task_id) ==
    LET req == [Req("list_reminders", actor) EXCEPT !.tid = task_id] IN
    IF ~Authenticated(actor) THEN Fail(req, "Unauthenticated")
    ELSE IF TaskGate(actor, task_id) # "ok" THEN Fail(req, TaskGate(actor, task_id))
    ELSE Read(req, NoOut)

\* A lookup by the reminder's id alone.
ReminderById(task_id, reminder_id) == {r \in reminders : r.id = reminder_id}

\* The reminder a path names: SELECT ... WHERE id = ? AND task_id = ?.
ReminderAt(task_id, reminder_id) ==
    {r \in reminders : r.id = reminder_id /\ r.task_id = task_id}

\* PUT /tasks/{task_id}/reminders/{reminder_id}
UpdateReminder(actor, task_id, reminder_id, every_minutes, start_at, end_at, is_enabled) ==
    LET req == [Req("update_reminder", actor) EXCEPT
                   !.tid = task_id, !.rid = reminder_id,
                   !.every_minutes = every_minutes, !.start_at = start_at,
                   !.end_at = end_at, !.is_enabled = is_enabled] IN
    IF ~Authenticated(actor) THEN Fail(req, "Unauthenticated")
    ELSE IF every_minutes # None /\ ~ValidEvery(every_minutes)
         THEN Fail(req, "ValidationError")
    ELSE IF TaskGate(actor, task_id) # "ok" THEN Fail(req, TaskGate(actor, task_id))
    ELSE IF ReminderAt(task_id, reminder_id) = {} THEN Fail(req, "NotFound")
    ELSE IF every_minutes = None /\ ~start_at.set /\ ~end_at.set /\ ~is_enabled.set
         THEN Read(req, NoOut)
    ELSE LET row == Row(reminders, reminder_id)
             new_every == IF every_minutes # None THEN every_minutes
                          ELSE row.every_minutes
             new_start == IF start_at.set THEN start_at ELSE row.start_at
         IN IF NextRunOverflows(new_start, new_every) THEN Fail(req, "UnhandledError")
            ELSE
            /\ reminders' = (reminders \ {row}) \cup
                   {[row EXCEPT !.every_minutes = new_every,
                                !.start_at = new_start,
                                !.end_at = IF end_at.set THEN end_at ELSE @,
                                !.is_enabled = IF is_enabled.set THEN is_enabled.v ELSE @,
                                !.next_run_at = ComputeNextRun(new_start, new_every)]}
            /\ last' = Resp(req, "ok", NoOut)
            /\ UNCHANGED <<reg, sync, cap, users, tags, tasks, taskTag, subtasks, files, blobs,
                           nextId, now, createdBy>>

\* DELETE /tasks/{task_id}/reminders/{reminder_id}
DeleteReminder(actor, task_id, reminder_id) ==
    LET req == [Req("delete_reminder", actor) EXCEPT !.tid = task_id,
                                                     !.rid = reminder_id] IN
    IF ~Authenticated(actor) THEN Fail(req, "Unauthenticated")
    ELSE IF TaskGate(actor, task_id) # "ok" THEN Fail(req, TaskGate(actor, task_id))
    ELSE IF ReminderAt(task_id, reminder_id) = {} THEN Fail(req, "NotFound")
    ELSE /\ reminders' = reminders \ {Row(reminders, reminder_id)}
         /\ last' = Resp(req, "ok", NoOut)
         /\ UNCHANGED <<reg, sync, cap, users, tags, tasks, taskTag, subtasks, files, blobs, nextId,
                        now, createdBy>>

\* The clock moves on between requests.
Tick ==
    /\ now < MaxClock
    /\ now' = now + 1
    /\ UNCHANGED <<users, tags, tasks, taskTag, subtasks, files, reminders, blobs,
                   nextId, cap, reg, sync, createdBy, last>>

\* ------------------------------------------------------------ the requests

TaskCreate(title, description, due_at, status, repeat, tag_ids, sts) ==
    [title |-> title, description |-> description, due_at |-> due_at,
     status |-> status, repeat_interval_minutes |-> repeat, tag_ids |-> tag_ids,
     subtasks |-> sts]

TaskUpdate(title, description, due_at, status, repeat, tag_ids) ==
    [title |-> title, description |-> description, due_at |-> due_at,
     status |-> status, repeat_interval_minutes |-> repeat, tag_ids |-> tag_ids]

Inline(title) == [title |-> title, is_done |-> FALSE]

MaybeUser == {None} \cup UserIds

Caps(tag, task, subtask, file, reminder) ==
    [tag |-> tag, task |-> task, subtask |-> subtask, file |-> file,
     reminder |-> reminder]

\* ------------------------------------------ Spec: who may touch which row

Init == InitWith({Admin, Alice, Bob},
                 Caps(MaxTags, MaxTasks, MaxSubTasks, MaxFiles, MaxReminders))

Next ==
    \/ \E a \in UserIds : CreateTag(a, None, <<"a">>)
    \/ \E a \in UserIds, g \in 1..cap.tag : UpdateTag(a, g, TRUE, <<"a">>)
    \/ \E a \in UserIds, g \in 1..cap.tag : DeleteTag(a, g)
    \/ \E a \in UserIds,
          ids \in {NoTagIds, TagIdList(<<1>>)},
          sts \in {<<>>, <<Inline(<<"a">>)>>} :
            CreateTask(a, None,
                       TaskCreate(<<"a">>, NoText, At(0, TRUE), "todo", 1, ids, sts))
    \/ \E a \in UserIds, t \in 1..cap.task : GetTask(a, t)
    \/ \E a \in UserIds, t \in 1..cap.task, ids \in {NoTagIds, TagIdList(<<1>>)} :
            UpdateTask(a, t, TaskUpdate(NoText, NoText, NoTime, NoStatus, None, ids))
    \/ \E a \in UserIds, t \in 1..cap.task, stuck \in SUBSET (1..cap.file) :
            DeleteTask(a, t, stuck)
    \/ \E a \in UserIds, t \in 1..cap.task : GenerateNext(a, t)
    \/ \E a \in UserIds, t \in 1..cap.task : CreateSubtask(a, t, <<"a">>, FALSE)
    \/ \E a \in UserIds, t \in 1..cap.task : ListSubtasks(a, t)
    \/ \E a \in UserIds, i \in 1..cap.subtask : UpdateSubtask(a, i, NoText, Some(FALSE))
    \/ \E a \in UserIds, i \in 1..cap.subtask : DeleteSubtask(a, i)
    \/ \E a \in UserIds, t \in 1..cap.task : UploadFile(a, t, 1)
    \/ \E a \in UserIds, t \in 1..cap.task : ListFiles(a, t)
    \/ \E a \in UserIds, i \in 1..cap.file : DownloadFile(a, i)
    \/ \E a \in UserIds, i \in 1..cap.file, stuck \in BOOLEAN : DeleteFile(a, i, stuck)
    \/ \E a \in UserIds, t \in 1..cap.task : CreateReminder(a, t, 1, NoTime, NoTime, TRUE)
    \/ \E a \in UserIds, t \in 1..cap.task : ListReminders(a, t)
    \/ \E a \in UserIds, t \in 1..cap.task, i \in 1..cap.reminder :
            UpdateReminder(a, t, i, None, NoTime, NoTime, Some(TRUE))
    \/ \E a \in UserIds, t \in 1..cap.task, i \in 1..cap.reminder :
            DeleteReminder(a, t, i)

Spec == Init /\ [][Next]_vars

\* The actor of a request is a signed-in user who is no admin.
NonAdmin(actor) == Authenticated(actor) /\ CurrentUser(actor).role # "admin"

TaskOps == {"get_task", "update_task", "delete_task", "generate_next",
            "create_subtask", "list_subtasks", "upload_file", "list_files",
            "create_reminder", "list_reminders"}

\* The request r names a row that exists and belongs to someone else than its
\* actor: a task by tid, a tag, subtask or file by rid, a reminder by its
\* task's tid and its own rid.
NamesForeignRow(r) ==
    \/ /\ r.op \in TaskOps
       /\ \E t \in tasks : t.id = r.tid /\ t.user_id # r.actor
    \/ /\ r.op \in {"update_tag", "delete_tag"}
       /\ \E g \in tags : g.id = r.rid /\ g.user_id # r.actor
    \/ /\ r.op \in {"update_subtask", "delete_subtask"}
       /\ \E x \in subtasks : x.id = r.rid /\ x.user_id # r.actor
    \/ /\ r.op \in {"download_file", "delete_file"}
       /\ \E f \in files : f.id = r.rid /\ f.user_id # r.actor
    \/ /\ r.op \in {"update_reminder", "delete_reminder"}
       /\ \E x \in reminders :
            x.id = r.rid /\ x.task_id = r.tid /\ x.user_id # r.actor

\* C1: a well-formed request of a non-admin that names a task, tag, subtask,
\* file or reminder of another user (a reminder through its own task) is
\* answered AccessDenied and changes no table and no stored file.
C1_ForeignRowDenied ==
    [][(NonAdmin(last'.req.actor) /\ NamesForeignRow(last'.req))
        => (last'.res = "AccessDenied" /\ store' = store)]_vars

\* C1 happens: a user was refused the update of another user's reminder.
C1_Witness ==
    /\ last.req.op = "update_reminder"
    /\ last.res = "AccessDenied"
    /\ NonAdmin(last.req.actor)
    /\ \E x \in reminders : /\ x.id = last.req.rid
                             /\ x.task_id = last.req.tid
                             /\ x.user_id # last.req.actor

\* C4: every SubTask, File and Reminder row carries the user_id of the Task
\* row it hangs on.
C4_ChildOwnerIsTaskOwner ==
    \A t \in tasks :
        /\ \A x \in subtasks : x.task_id = t.id => x.user_id = t.user_id
        /\ \A x \in files : x.task_id = t.id => x.user_id = t.user_id
        /\ \A x \in reminders : x.task_id = t.id => x.user_id = t.user_id

\* C4 happens: the admin has just added a reminder to a task of another user,
\* which also holds a subtask and a file.
C4_Witness ==
    /\ last.req.op = "create_reminder"
    /\ last.res = "ok"
    /\ ~NonAdmin(last.req.actor)
    /\ \E t \in tasks :
        /\ t.id = last.req.tid
        /\ t.user_id # last.req.actor
        /\ \E x \in reminders : x.id = last.out.id /\ x.task_id = t.id
        /\ \E x \in subtasks : x.task_id = t.id
        /\ \E x \in files : x.task_id = t.id

\* C8: a task delete that went through leaves no SubTask, Reminder, File or
\* TaskTag row of that task, deletes no Tag row, and has tried os.remove on
\* the path of every File row the task had.
C8_TaskDeleteCascades ==
    [][(last'.req.op = "delete_task" /\ last'.res = "ok")
        => LET t == last'.req.tid IN
           /\ ~Exists(tasks', t)
           /\ \A x \in subtasks' : x.task_id # t
           /\ \A x \in reminders' : x.task_id # t
           /\ \A x \in files' : x.task_id # t
           /\ \A x \in DOMAIN taskTag' : x.task_id # t
           /\ tags' = tags
           /\ last'.out.rm = {f.storage_path : f \in {x \in files : x.task_id = t}}
           /\ blobs' \subseteq blobs]_vars

\* C8 happens: a deleted task took a subtask, a file, a reminder and a tag
\* link with it, the tag stayed, and the file's bytes could not be removed.
C8_Witness ==
    /\ last.req.op = "delete_task"
    /\ last.res = "ok"
    /\ last.out.gone >= 4
    /\ tags # {}
    /\ last.out.rm \cap blobs # {}

\* --------------------------------------- SpecTags: tags attached to tasks

\* Every tag_ids a request may carry: None, or a list of at most MaxTagList
\* ids, some of them of no tag.
TagIdLists(ids) ==
    {NoTagIds} \cup {TagIdList(l) : l \in UNION {[1..n -> ids] : n \in 0..MaxTagList}}

InitTags == InitWith({Admin, Alice}, Caps(TagRows, TaskRows, 0, 0, 0))

NextTags ==
    \/ \E a \in {1, 2}, n \in {<<"a">>, <<"b">>} : CreateTag(a, None, n)
    \/ \E a \in {1, 2}, g \in 1..cap.tag : DeleteTag(a, g)
    \/ \E a \in {1, 2}, ids \in TagIdLists(1..cap.tag) :
            CreateTask(a, None,
                       TaskCreate(<<"a">>, NoText, At(0, TRUE), "todo", 1, ids, <<>>))
    \/ \E a \in {1, 2}, t \in 1..cap.task, ids \in TagIdLists(1..cap.tag) :
            UpdateTask(a, t, TaskUpdate(NoText, NoText, NoTime, Some("done"), None, ids))
    \/ \E a \in {1, 2}, t \in 1..cap.task : GenerateNext(a, t)
    \/ \E a \in {1, 2}, t \in 1..cap.task : DeleteTask(a, t, {})

SpecTags == InitTags /\ [][NextTags]_vars

\* C3: every TaskTag row links a task and a tag of the same user.
C3_LinkedTagHasTaskOwner ==
    \A l \in DOMAIN taskTag : \A t \in tasks : \A g \in tags :
        (t.id = l.task_id /\ g.id = l.tag_id) => t.user_id = g.user_id

\* C3 happens: the admin has just replaced the tags of another user's task,
\* and the admin owns a tag too.
C3_Witness ==
    /\ last.req.op = "update_task"
    /\ last.res = "ok"
    /\ last.req.tag_ids.given
    /\ ~NonAdmin(last.req.actor)
    /\ \E t \in tasks : /\ t.id = last.req.tid
                         /\ t.user_id # last.req.actor
                         /\ \E l \in DOMAIN taskTag : l.task_id = t.id
    /\ \E g \in tags : g.user_id = last.req.actor

\* C5 as claimed: a request answered UnknownTagIds has written nothing: no
\* Task row is new or changed, no TaskTag row is new or gone.
C5_UnknownTagIdsWritesNothing ==
    [][(last'.res = "UnknownTagIds")
        => (tasks' = tasks /\ taskTag' = taskTag)]_vars

\* The TaskTag rows of one task, as a bag.
LinksOf(bag, task_id) ==
    [r \in {x \in DOMAIN bag : x.task_id = task_id} |-> bag[r]]

\* C6: a task update with tag_ids that went through leaves the task linked to
\* exactly the tags listed, each by one row, whatever it was linked to before
\* (so a second update with the same list changes nothing); with tag_ids
\* None the rows stay as they were.  No other task's rows change.
C6_TagSyncReplaces ==
    [][(last'.req.op = "update_task" /\ last'.res = "ok")
        => LET t == last'.req.tid
               ids == last'.req.tag_ids
           IN /\ WithoutTask(taskTag', t) = WithoutTask(taskTag, t)
              /\ IF ids.given
                 THEN LinksOf(taskTag', t) =
                        SetToBag({[task_id |-> t, tag_id |-> x] : x \in Range(ids.ids)})
                 ELSE LinksOf(taskTag', t) = LinksOf(taskTag, t)]_vars

\* C6 happens: the same update, with one tag id listed twice, went through
\* twice in a row, on a task whose owner has two tags.
C6_Witness ==
    /\ last.req.op = "update_task"
    /\ last.res = "ok"
    /\ last.again
    /\ last.req.tag_ids.given
    /\ Len(last.req.tag_ids.ids) > Cardinality(Range(last.req.tag_ids.ids))
    /\ BagCardinality(LinksOf(taskTag, last.req.tid)) = 1
    /\ Cardinality({g \in tags : g.user_id = Row(tasks, last.req.tid).user_id}) = 2

\* ------------------------------- SpecActAs: requests on behalf of a user

InitActAs == InitWith({Admin, Alice, Bob}, Caps(ActTags, ActTasks, 0, 0, 0))

NextActAs ==
    \/ \E a \in UserIds, u \in MaybeUser : CreateTag(a, u, <<"a">>)
    \/ \E a \in UserIds, u \in MaybeUser : ListTags(a, u)
    \/ \E a \in UserIds, g \in 1..cap.tag : DeleteTag(a, g)
    \/ \E a \in UserIds, u \in MaybeUser :
            CreateTask(a, u, TaskCreate(<<"a">>, NoText, At(0, TRUE), "todo", 1,
                                        NoTagIds, <<>>))
    \/ \E a \in UserIds, u \in MaybeUser : ListTasks(a, u, NoStatus, 20, 0)
    \/ \E a \in UserIds, u \in MaybeUser : CalendarView(a, u, 0, 1)
    \/ \E a \in UserIds, t \in 1..cap.task : GenerateNext(a, t)
    \/ \E a \in UserIds, t \in 1..cap.task : DeleteTask(a, t, {})

SpecActAs == InitActAs /\ [][NextActAs]_vars

ActAsOps == {"create_task", "create_tag", "list_tags", "list_tasks", "calendar_view"}

\* Every Task and Tag row made by the request of a non-admin is that user's.
MadeByUserIsOwn ==
    /\ \A t \in tasks : createdBy.task[t.id].role = "user"
                            => t.user_id = createdBy.task[t.id].actor
    /\ \A g \in tags : createdBy.tag[g.id].role = "user"
                           => g.user_id = createdBy.tag[g.id].actor

\* C2: a non-admin who names another user in user_id on task create, tag
\* create, tag list, task list or the calendar is answered AdminRequired and
\* nothing is written; and every Task and Tag row that a non-admin's request
\* made is owned by that user.
C2_NonAdminActsAsSelf ==
    /\ []MadeByUserIsOwn
    /\ [][(/\ last'.req.op \in ActAsOps
           /\ NonAdmin(last'.req.actor)
           /\ last'.req.uid # None
           /\ last'.req.uid # last'.req.actor)
          => (last'.res = "AdminRequired" /\ store' = store)]_vars

\* C2 happens: a user who made a task and a tag of their own was refused a
\* task create in the name of another user.
C2_Witness ==
    /\ last.req.op = "create_task"
    /\ last.res = "AdminRequired"
    /\ last.req.uid \notin {None, last.req.actor}
    /\ \E t \in tasks : createdBy.task[t.id] = Creator(CurrentUser(last.req.actor))
    /\ \E g \in tags : createdBy.tag[g.id] = Creator(CurrentUser(last.req.actor))

\* ------------------------------------ SpecGen: the next occurrence of a task

InitGen == InitWith({Admin, Alice}, Caps(GenTags, GenTasks, 0, 0, 0))

NextGen ==
    \/ \E a \in {1, 2} : CreateTag(a, None, <<"a">>)
    \/ \E a \in {1, 2},
          due \in {NoTime, At(0, FALSE), At(2, TRUE)},
          rep \in {None, 2},
          ids \in {NoTagIds, TagIdList(<<1>>)} :
            CreateTask(a, None, TaskCreate(<<"a">>, Some(<<"d">>), due, "done", rep,
                                           ids, <<>>))
    \/ \E a \in {1, 2}, t \in 1..cap.task : GenerateNext(a, t)
    \/ \E a \in {1, 2}, t \in 1..cap.task : DeleteTask(a, t, {})

SpecGen == InitGen /\ [][NextGen]_vars

\* The step is a generate-next request that reached the task it names.
GenReached ==
    /\ last'.req.op = "generate_next"
    /\ last'.res \notin {"Unauthenticated", "NotFound", "AccessDenied"}

\* What generate-next owes for the source row src.
GenOwed(src) ==
    IF src.repeat_interval_minutes = None
    THEN last'.res = "NotRepeating" /\ tasks' = tasks /\ taskTag' = taskTag
    ELSE IF ~src.due_at.set
    THEN last'.res = "NoDueDate" /\ tasks' = tasks /\ taskTag' = taskTag
    ELSE /\ last'.res = "ok"
         /\ \E new \in tasks' \ tasks :
               /\ tasks' = tasks \cup {new}
               /\ new.id \notin {t.id : t \in tasks}
               /\ new.due_at.set
               /\ new.due_at.t = src.due_at.t + src.repeat_interval_minutes
               /\ new.status = "todo"
               /\ new.user_id = src.user_id
               /\ new.title = src.title
               /\ new.description = src.description
               /\ new.repeat_interval_minutes = src.repeat_interval_minutes
               /\ TagLinks(taskTag', new.id) = TagLinks(taskTag, src.id)
               /\ \A r \in DOMAIN taskTag' :
                     IF r.task_id = new.id THEN taskTag'[r] = 1
                     ELSE r \in DOMAIN taskTag /\ taskTag'[r] = taskTag[r]
               /\ \A r \in DOMAIN taskTag : r \in DOMAIN taskTag'

\* C7: generate-next on a task with due_at = T and interval M makes exactly one
\* new Task, due at T + M minutes, status todo, with the owner, title,
\* description, interval and tag set of the source, and leaves the source row
\* and every other association as they were; without an interval or without a
\* due date it fails (NotRepeating / NoDueDate) and makes no task.
C7_GenerateNextCopies ==
    [][GenReached => GenOwed(Row(tasks, last'.req.tid))]_vars

\* The same, for the sources whose T + M is a date that datetime can hold.
GenerateNextCopiesInRange ==
    [][(/\ GenReached
        /\ LET src == Row(tasks, last'.req.tid) IN
           ~(/\ src.repeat_interval_minutes # None
             /\ src.due_at.set
             /\ DateOverflows(src.due_at, src.repeat_interval_minutes)))
       => GenOwed(Row(tasks, last'.req.tid))]_vars

\* A tagged, finished task was copied forward.
GenerateNextCopied ==
    /\ last.req.op = "generate_next"
    /\ last.res = "ok"
    /\ TagLinks(taskTag, last.out.id) # {}

\* ------------------------------------------- SpecPage: the pages of GET /tasks

Limits == {0, 1, 2, 100, 1000}
Offsets == {-5, 0, 1}

InitPage == InitWith({Admin, Alice}, Caps(0, PageTasks, 0, 0, 0))

NextPage ==
    \/ \E due \in {NoTime, At(0, TRUE), At(1, TRUE)} :
            CreateTask(2, None, TaskCreate(<<"a">>, NoText, due, "todo", None,
                                           NoTagIds, <<>>))
    \/ \E a \in {2, 3}, limit \in Limits, offset \in Offsets :
            ListTasks(a, None, NoStatus, limit, offset)
    \/ \E t \in 1..cap.task : DeleteTask(2, t, {})
    \/ Tick

SpecPage == InitPage /\ [][NextPage]_vars

\* The step is a task list request of a known caller for their own tasks.
ListReached ==
    /\ last'.req.op = "list_tasks"
    /\ last'.res # "Unauthenticated"
    /\ last'.req.uid = None

\* The answer is a page of the caller's tasks cut with the given limit and offset.
IsPage(limit, offset) ==
    /\ last'.res = "ok"
    /\ \E s \in Orderings(ListedTasks(last'.req.actor, NoStatus)) :
          last'.out.page = Page(s, limit, offset)

\* C9 as stated: out-of-range limit and offset are clamped, not rejected:
\* limit 0 answers as limit 1, limit 1000 as limit 100, offset -5 as offset 0.
C9_ClampedNotRejected ==
    [][ListReached => IsPage(NormalizeLimit(last'.req.limit),
                             NormalizeOffset(last'.req.offset))]_vars

\* C9: a task list request whose limit is outside 1..100 or whose offset is
\* negative is rejected with a validation error, returns no page and changes
\* nothing; a request within the ranges returns the page cut with exactly the
\* limit and offset given.
C9_OutOfRangeRejected ==
    [][ListReached =>
          IF last'.req.limit \in MinLimit..MaxLimit /\ last'.req.offset >= MinOffset
          THEN IsPage(last'.req.limit, last'.req.offset)
          ELSE /\ last'.res = "ValidationError"
               /\ last'.out.page = <<>>
               /\ store' = store]_vars

\* C9 happens: with tasks to list, limit 0 was refused.
C9_Witness ==
    /\ last.req.op = "list_tasks"
    /\ last.req.limit = 0
    /\ last.req.offset = 0
    /\ last.res = "ValidationError"
    /\ ListedTasks(last.req.actor, NoStatus) # {}

\* ------------------------------------------------ SpecUpload: POST /files

Sizes == {0, 1, 26214400, 26214401}

InitUpload == InitWith({Admin, Alice}, Caps(0, 1, 0, UpFiles, 0))

NextUpload ==
    \/ CreateTask(2, None, TaskCreate(<<"a">>, NoText, NoTime, "todo", None,
                                      NoTagIds, <<>>))
    \/ \E a \in UserIds, t \in 1..cap.task, size \in Sizes : UploadFile(a, t, size)
    \/ \E a \in UserIds, f \in 1..cap.file : DownloadFile(a, f)
    \/ \E a \in UserIds, f \in 1..cap.file, stuck \in BOOLEAN : DeleteFile(a, f, stuck)
    \/ \E a \in UserIds, t \in 1..cap.task, stuck \in SUBSET (1..cap.file) :
            DeleteTask(a, t, stuck)

SpecUpload == InitUpload /\ [][NextUpload]_vars

\* The step is an upload that got past the task gate, to the size tests.
UploadReached ==
    /\ last'.req.op = "upload_file"
    /\ last'.res \notin {"Unauthenticated", "NotFound", "AccessDenied"}

\* C10: an upload of s bytes is accepted iff 1 <= s <= 26214400: 0 bytes is
\* EmptyFile, 26214401 bytes is TooLarge, 26214400 bytes succeeds; a refused
\* upload adds nothing to the byte store and no File row, an accepted one adds
\* one of each; so every File row has size_bytes in 1..26214400.
C10_UploadSizeBounds ==
    /\ [](\A f \in files : f.size_bytes >= 1 /\ f.size_bytes <= 26214400)
    /\ [][UploadReached =>
            LET s == last'.req.size IN
            /\ (last'.res = "ok") <=> (s >= 1 /\ s <= 26214400)
            /\ (s = 0) => last'.res = "EmptyFile"
            /\ (s > 26214400) => last'.res = "TooLarge"
            /\ (last'.res # "ok") => (blobs' = blobs /\ files' = files)
            /\ (last'.res = "ok") =>
                  /\ Cardinality(blobs' \ blobs) = 1 /\ blobs \subseteq blobs'
                  /\ \E f \in files' \ files :
                        /\ files' = files \cup {f}
                        /\ f.size_bytes = s
                        /\ f.storage_path \in blobs' \ blobs]_vars

\* C10 happens: beside a stored file, one of exactly 26214400 bytes was taken.
C10_Witness ==
    /\ last.req.op = "upload_file"
    /\ last.req.size = 26214400
    /\ last.res = "ok"
    /\ \E f \in files : f.id = last.out.id /\ f.size_bytes = 26214400
    /\ Cardinality(files) = 2

\* ------------------------------------------- SpecRem: the next run of a reminder

Starts == {NoTime, At(0, FALSE), At(2, TRUE)}

InitRem == InitWith({Admin, Alice}, Caps(0, 1, 0, 0, RemRows))

NextRem ==
    \/ CreateTask(2, None, TaskCreate(<<"a">>, NoText, NoTime, "todo", None,
                                      NoTagIds, <<>>))
    \/ \E every \in {1, 2}, start \in Starts :
            CreateReminder(2, 1, every, start, NoTime, TRUE)
    \/ \E i \in 1..cap.reminder, every \in {None, 1, 2}, start \in Starts,
          end \in {NoTime, At(3, TRUE)}, enabled \in {NoBool, Some(FALSE)} :
            UpdateReminder(2, 1, i, every, start, end, enabled)
    \/ \E i \in 1..cap.reminder : DeleteReminder(2, 1, i)
    \/ Tick

SpecRem == InitRem /\ [][NextRem]_vars

\* base + every_minutes, base being start_at when there is one, else the time
\* of the write.
NextRunOwed(start_at, every_minutes) ==
    (IF start_at.set THEN start_at.t ELSE now) + every_minutes

\* C11: a reminder create, and a reminder update that supplies any field (be
\* it only is_enabled), store next_run_at = base + every_minutes, base being
\* start_at when there is one and else the time of the write, taken from the
\* request where it supplies the value and from the stored row where it does
\* not; an update that supplies no field leaves the row as it was.  (A step
\* that leaves the clock alone is a request; the other steps are ticks.)
C11_NextRunRecomputed ==
    [][/\ (now' = now /\ last'.req.op = "create_reminder" /\ last'.res = "ok")
          => Row(reminders', last'.out.id).next_run_at
                = NextRunOwed(last'.req.start_at, last'.req.every_minutes)
       /\ (now' = now /\ last'.req.op = "update_reminder" /\ last'.res = "ok")
          => LET r == last'.req
                 old == Row(reminders, r.rid)
                 new == Row(reminders', r.rid)
             IN IF /\ r.every_minutes = None /\ ~r.start_at.set
                   /\ ~r.end_at.set /\ ~r.is_enabled.set
                THEN new = old
                ELSE new.next_run_at
                       = NextRunOwed(IF r.start_at.set THEN r.start_at ELSE old.start_at,
                                     IF r.every_minutes # None THEN r.every_minutes
                                     ELSE old.every_minutes)]_vars

\* C11 happens: an update that gave a new interval only, on a reminder with a
\* start, moved the next run to the stored start plus the new interval.
C11_Witness ==
    /\ last.req.op = "update_reminder"
    /\ last.res = "ok"
    /\ last.req.every_minutes = 1
    /\ ~last.req.start_at.set
    /\ now = 1
    /\ \E r \in reminders : /\ r.id = last.req.rid
                             /\ r.start_at = At(2, TRUE)
                             /\ r.every_minutes = 1
                             /\ r.next_run_at = 3

\* ------------------------------------ SpecInline: subtasks sent with a task

\* The title of entry i: i letters, every seventh with spaces around it.
TitleAt(i) ==
    IF i % 7 = 0 THEN <<" ">> \o [j \in 1..i |-> "a"] \o <<" ">>
    ELSE [j \in 1..i |-> "a"]

\* n entries, those at the positions blanks holding only a space.
InlineList(n, blanks) ==
    [i \in 1..n |-> [title |-> IF i \in blanks THEN <<" ">> ELSE TitleAt(i),
                     is_done |-> (i % 2 = 0)]]

InlineLists ==
    {<<>>, InlineList(3, {2}), InlineList(InlineCap, {}),
     InlineList(MaxInline, {}), InlineList(MaxInline, {1, 30, 55}),
     InlineList(InlineCap + 2, {10, 20}), InlineList(InlineCap + 1, {InlineCap + 1})}

InitInline == InitWith({Admin, Alice}, Caps(0, InlTasks, InlRows, 0, 0))

NextInline ==
    \/ \E a \in {1, 2}, u \in {None, 2}, sts \in InlineLists :
            CreateTask(a, u, TaskCreate(<<"a">>, NoText, NoTime, "todo", None,
                                        NoTagIds, sts))
    \/ \E a \in {1, 2}, t \in 1..cap.task : GetTask(a, t)
    \/ \E a \in {1, 2}, i \in {1, InlineCap, InlineCap + 1} : DeleteSubtask(a, i)
    \/ \E a \in {1, 2}, t \in 1..cap.task : DeleteTask(a, t, {})

SpecInline == InitInline /\ [][NextInline]_vars

\* The entries of an inline list whose trimmed title is not empty, in order.
NonBlank(sts) == SelectSeq(sts, LAMBDA e : Strip(e.title) # <<>>)

\* C12: a task create carrying inline subtasks persists exactly the first
\* min(50, k) of the k entries whose trimmed title is not empty, in their
\* order, each with the task's owner and the trimmed title; 60 valid entries
\* persist 50 without an error; the subtasks_count returned is the number
\* persisted.
C12_InlineSubtasksCapped ==
    [][(last'.req.op = "create_task" /\ last'.res # "AdminRequired") =>
          LET kept == NonBlank(last'.req.subtasks)
              n == IF Len(kept) < 50 THEN Len(kept) ELSE 50
              new == subtasks' \ subtasks
              task == Row(tasks', last'.out.id)
          IN /\ last'.res = "ok"
             /\ subtasks \subseteq subtasks'
             /\ Cardinality(new) = n
             /\ last'.out.subtasks_count = n
             /\ \A r \in new :
                   LET pos == Cardinality({q \in new : q.id <= r.id}) IN
                   /\ r.title = Strip(kept[pos].title)
                   /\ r.is_done = kept[pos].is_done
                   /\ r.task_id = task.id
                   /\ r.user_id = task.user_id]_vars

\* C12 happens: an admin sent 60 entries, three of them blank, for the task of
\* a user, and 50 rows of that user were stored.
C12_Witness ==
    /\ last.req.op = "create_task"
    /\ last.res = "ok"
    /\ last.req.actor = 1
    /\ last.req.uid = 2
    /\ Len(last.req.subtasks) = 60
    /\ Len(NonBlank(last.req.subtasks)) = 57
    /\ last.out.subtasks_count = 50
    /\ Cardinality({r \in subtasks : r.task_id = last.out.id /\ r.user_id = 2}) = 50

\* --------------------------- SpecBehalf: an admin writing for another user

\* User 3 is no row of User here.
InitBehalf == InitWith({Admin, Alice}, Caps(BehalfTags, BehalfTasks, 0, 0, 0))

NextBehalf ==
    \/ \E a \in {1, 2}, u \in MaybeUser, name \in {<<"a">>, <<"b">>} :
            CreateTag(a, u, name)
    \/ \E a \in {1, 2}, u \in MaybeUser :
            CreateTask(a, u, TaskCreate(<<"a">>, NoText, NoTime, "todo", None,
                                        NoTagIds, <<>>))
    \/ \E a \in {1, 2}, g \in 1..cap.tag : DeleteTag(a, g)
    \/ \E a \in {1, 2}, t \in 1..cap.task : DeleteTask(a, t, {})

SpecBehalf == InitBehalf /\ [][NextBehalf]_vars

\* What is owed to an admin's create of kind op for the user id given.
BehalfOwed(op, table, table2) ==
    (/\ last'.req.op = op
     /\ last'.req.uid # None
     /\ \E u \in users : u.id = last'.req.actor /\ u.role = "admin")
    => IF ~Exists(users, last'.req.uid)
       THEN last'.res = "NotFound" /\ table2 = table
       ELSE /\ last'.res = "ok"
            /\ table \subseteq table2
            /\ \E r \in table2 \ table :
                  /\ table2 = table \cup {r}
                  /\ r.id = last'.out.id
                  /\ r.user_id = last'.req.uid

\* C13: an admin's task create or tag create for a user id that is no user
\* fails with NotFound and makes no row; for the id of a user it makes a row
\* whose user_id is that id.
C13_BehalfOfUnknownUser ==
    [][/\ BehalfOwed("create_task", tasks, tasks')
       /\ BehalfOwed("create_tag", tags, tags')]_vars

\* The task half of it.
CreateTaskOnBehalfChecked == [][BehalfOwed("create_task", tasks, tasks')]_vars

\* An admin made a task for a user, and was refused one for an unknown id.
CreateTaskOnBehalfSeen ==
    /\ last.req.op = "create_task"
    /\ last.req.actor = 1
    /\ last.req.uid = 3
    /\ last.res = "NotFound"
    /\ \E t \in tasks : t.user_id = 2 /\ createdBy.task[t.id].actor = 1

\* ------------------------------------ SpecNames: tag names and task titles

Letters(n) == [i \in 1..n |-> "a"]

\* Names as they arrive: plain, padded, blank, empty, of the largest length,
\* one longer, and of the largest length once trimmed.
Names ==
    {<<"a">>, <<" ", "a">>, <<"b">>, <<" ">>, <<>>, Letters(MaxNameLen),
     Letters(MaxNameLen + 1), <<" ">> \o Letters(MaxNameLen)}

Titles ==
    {<<"a">>, <<" ", "a", " ">>, <<" ">>, <<>>, Letters(MaxTitleLen),
     Letters(MaxTitleLen + 1)}

InitNames == InitWith({Admin, Alice}, Caps(NameTags, NameTasks, 0, 0, 0))

NextNames ==
    \/ \E a \in {1, 2}, name \in Names : CreateTag(a, None, name)
    \/ \E a \in {1, 2}, g \in 1..cap.tag, name \in Names : UpdateTag(a, g, TRUE, name)
    \/ \E a \in {1, 2}, g \in 1..cap.tag : UpdateTag(a, g, FALSE, <<>>)
    \/ \E a \in {1, 2}, g \in 1..cap.tag : DeleteTag(a, g)
    \/ \E title \in Titles :
            CreateTask(2, None, TaskCreate(title, NoText, NoTime, "todo", None,
                                           NoTagIds, <<>>))
    \/ \E title \in Titles :
            UpdateTask(2, 1, TaskUpdate(Some(title), NoText, NoTime, NoStatus, None,
                                        NoTagIds))
    \/ DeleteTask(2, 1, {})

SpecNames == InitNames /\ [][NextNames]_vars

\* No two tags of one owner bear one name.
TagNamesUnique ==
    \A g, h \in tags : (g.user_id = h.user_id /\ g.name = h.name) => g.id = h.id

\* The step is a tag create or a rename that got to its statement; owner is
\* whose tag it writes, self the row renamed (None on create).
TagWrite(op, owner, self) ==
    /\ last'.req.op = op
    /\ last'.req.name.set
    /\ last'.res \notin {"Unauthenticated", "ValidationError", "AdminRequired",
                         "NotFound", "AccessDenied"}
    => IF \E g \in tags : /\ g.user_id = owner
                          /\ g.name = Strip(last'.req.name.v)
                          /\ g.id # self
       THEN last'.res = "DuplicateName" /\ tags' = tags
       ELSE last'.res = "ok"

\* C14: tag names are unique per owner in every state; a tag create or a
\* rename to the trimmed name of another tag of the same owner fails with
\* DuplicateName, not the generic StorageError, and leaves the tags as they
\* were; the same name under another owner goes through.
C14_DuplicateNameConflict ==
    /\ []TagNamesUnique
    /\ [][/\ TagWrite("create_tag", last'.req.actor, None)
           /\ TagWrite("update_tag",
                       IF Exists(tags, last'.req.rid)
                       THEN Row(tags, last'.req.rid).user_id ELSE None,
                       last'.req.rid)]_vars

\* What holds of it: names stay unique per owner, a duplicate is refused with
\* some error and writes nothing, and another owner may bear the name.
TagNamesStayUnique ==
    /\ []TagNamesUnique
    /\ [][(/\ last'.req.op \in {"create_tag", "update_tag"}
            /\ last'.res = "StorageError") => tags' = tags]_vars

TwoOwnersOneName ==
    /\ last.res = "StorageError"
    /\ last.req.op = "create_tag"
    /\ \E g, h \in tags : g.user_id # h.user_id /\ g.name = h.name

\* C18: names are trimmed before their length is tested: every stored Tag
\* name has 1..50 characters and every stored Task title 1..200, none with
\* whitespace around it; a create or rename whose name or title is only
\* whitespace is answered ValidationError and writes nothing.
C18_TrimmedBeforeValidation ==
    /\ [](/\ \A g \in tags : /\ Len(g.name) >= 1 /\ Len(g.name) <= 50
                              /\ Strip(g.name) = g.name
           /\ \A t \in tasks : /\ Len(t.title) >= 1 /\ Len(t.title) <= 200
                               /\ Strip(t.title) = t.title)
    /\ [][(/\ last'.req.op \in {"create_tag", "update_tag", "create_task", "update_task"}
            /\ last'.req.name.set
            /\ Strip(last'.req.name.v) = <<>>
            /\ last'.res # "Unauthenticated")
           => (last'.res = "ValidationError" /\ store' = store)]_vars

\* What holds of it: stored names and titles are trimmed and within the upper
\* bound, and may be empty.
StoredNamesTrimmed ==
    /\ \A g \in tags : Len(g.name) <= 50 /\ Strip(g.name) = g.name
    /\ \A t \in tasks : Len(t.title) <= 200 /\ Strip(t.title) = t.title

EmptyNameStored ==
    /\ \E g \in tags : g.name = <<>>
    /\ \E t \in tasks : t.title = <<>>

\* -------------------------------------------- SpecUsers: deleting a user

InitUsers == InitWith({Admin, Alice}, Caps(0, UserTasks, UserRows, UserRows, UserRows))

NextUsers ==
    \/ \E a \in {1, 2} :
            CreateTask(a, None, TaskCreate(<<"a">>, NoText, NoTime, "todo", None,
                                           NoTagIds, <<>>))
    \/ \E a \in {1, 2}, t \in 1..cap.task : CreateSubtask(a, t, <<"a">>, FALSE)
    \/ \E a \in {1, 2}, t \in 1..cap.task : UploadFile(a, t, 1)
    \/ \E a \in {1, 2}, t \in 1..cap.task :
            CreateReminder(a, t, 1, NoTime, NoTime, TRUE)
    \/ \E a \in {1, 2}, f \in 1..cap.file, stuck \in BOOLEAN : DeleteFile(a, f, stuck)
    \/ \E a \in {1, 2}, u \in UserIds : DeleteUser(a, u)

SpecUsers == InitUsers /\ [][NextUsers]_vars

\* The step is a user delete that went through.
UserDeleted == last'.req.op = "delete_user" /\ last'.res = "ok"

\* No task of the deleted user, and no row under such a task, is left.
UserRowsGone ==
    LET gone == {t.id : t \in {x \in tasks : x.user_id = last'.req.uid}} IN
    /\ \A t \in tasks' : t.user_id # last'.req.uid
    /\ \A r \in subtasks' : r.task_id \notin gone
    /\ \A r \in files' : r.task_id \notin gone
    /\ \A r \in reminders' : r.task_id \notin gone

\* The bytes of every file under such a task were removed, or removal was tried.
UserBytesGone ==
    \A f \in files :
        (\E t \in tasks : t.id = f.task_id /\ t.user_id = last'.req.uid)
        => (f.storage_path \notin blobs' \/ f.storage_path \in last'.out.rm)

\* C15: after a user delete that went through, no Task of that user and no
\* SubTask, Reminder or File row of such a task is left, and the stored bytes
\* of every file of those tasks were removed or had their removal tried.
C15_UserDeleteCascades == [][UserDeleted => (UserRowsGone /\ UserBytesGone)]_vars

\* The rows' half of it.
UserDeleteDropsRows == [][UserDeleted => UserRowsGone]_vars

\* A user who had a task with a subtask, a file and a reminder was deleted.
UserDeleteSeen ==
    /\ last.req.op = "delete_user"
    /\ last.res = "ok"
    /\ last.req.uid = 2
    /\ nextId.subtask = 2 /\ nextId.file = 2 /\ nextId.reminder = 2
    /\ tasks = {} /\ files = {} /\ blobs # {}

\* --------------------------------------------------- SpecReg: registration

\* Alice's address in capitals, and a new address in either case.
Mails == {Mail(<<"A">>), Mail(<<"c">>), Mail(<<"C">>), NoMail}

InitReg == InitWith({Admin, Alice}, Caps(0, 0, 0, 0, 0))

NextReg ==
    \/ \E p \in Workers, email \in Mails, role \in Roles :
            nextId.user <= RegUsers /\ RegisterSelect(p, email, role)
    \/ \E p \in Workers : RegisterInsert(p)
    \/ \E a \in {1, 2}, u \in 1..RegUsers : DeleteUser(a, u)

SpecReg == InitReg /\ [][NextReg]_vars

\* An address with every letter in lower case.
FoldMail(e) ==
    [local |-> [i \in 1..Len(e.local) |-> LowerChar(e.local[i])],
     domain |-> [i \in 1..Len(e.domain) |-> LowerChar(e.domain[i])]]

\* No two users have addresses that are equal up to the case of letters.
EmailsUnique ==
    \A u, v \in users : FoldMail(u.email) = FoldMail(v.email) => u.id = v.id

\* Some user has the address, up to the case of letters.
Registered(email) == \E u \in users : FoldMail(u.email) = FoldMail(email)

\* What a step owes to the registrations it touches.
RegisterOwed ==
    /\ (\E p \in Workers : reg[p].pc = "idle" /\ reg'[p].pc = "selected")
       => ~\E p \in Workers : /\ reg[p].pc = "idle" /\ reg'[p].pc = "selected"
                              /\ Registered(reg'[p].email)
    /\ (/\ last'.req.op = "register" /\ reg' = reg /\ last' # last
        /\ Registered(last'.req.email))
       => (last'.res = "DuplicateEmail" /\ users' = users)
    /\ (last'.req.op = "register" /\ last'.res = "ok" /\ users' # users)
       => /\ ~Registered(last'.req.email)
          /\ \E u \in users' \ users :
                /\ users' = users \cup {u}
                /\ u.email = FoldMail(last'.req.email)
    /\ (last'.req.op = "register" /\ last'.res # "ok") => users' = users

\* A registration refused for an address that is in use is told so.
RefusedAsDuplicate ==
    (/\ last'.req.op = "register" /\ last' # last
     /\ last'.res \notin {"ok", "ValidationError"})
    => last'.res = "DuplicateEmail"

\* C16: no two users have emails equal up to letter case; the email is stored
\* lower-cased; a registration of an email that a user already has up to case
\* fails with DuplicateEmail and leaves the users as they were, also when two
\* registrations of one email run together, of which at most one succeeds.
C16_EmailsUniqueIgnoringCase ==
    /\ [](EmailsUnique /\ \A u \in users : u.email = FoldMail(u.email))
    /\ [][RegisterOwed /\ RefusedAsDuplicate]_vars

\* What holds of it: uniqueness up to case, lower-case storage, DuplicateEmail
\* for a registration that arrives when the email is in use, and never a
\* second user for an email.
EmailsStayUnique ==
    /\ [](EmailsUnique /\ \A u \in users : u.email = FoldMail(u.email))
    /\ [][RegisterOwed]_vars

\* Two registrations of one address ran together, one made the user and the
\* other was refused.
RegistrationRaceSeen ==
    /\ last.req.op = "register"
    /\ last.res = "StorageError"
    /\ \E u \in users : u.id >= FirstNewUser /\ u.email = last.req.email
    /\ \A p \in Workers : reg[p].pc = "idle"

\* ------------------------------------- under SpecUpload: stuck stored bytes

\* C17: a delete of a file, or of a task, that got past its access test
\* succeeds and removes the File row (and the Task row with its File rows)
\* whether or not the stored bytes could be removed; bytes that could not are
\* left behind without a row.
C17_CleanupFailureSwallowed ==
    [][/\ (/\ last'.req.op = "delete_file"
           /\ last'.res \notin {"Unauthenticated", "NotFound", "AccessDenied"})
          => /\ last'.res = "ok"
             /\ \A f \in files' : f.id # last'.req.rid
             /\ files' \subseteq files
       /\ (/\ last'.req.op = "delete_task"
           /\ last'.res \notin {"Unauthenticated", "NotFound", "AccessDenied"})
          => /\ last'.res = "ok"
             /\ \A t \in tasks' : t.id # last'.req.tid
             /\ \A f \in files' : f.task_id # last'.req.tid]_vars

\* C17 happens: a task with two files was deleted, the removal of one file's
\* bytes failed, and those bytes are left with no row for them.
C17_Witness ==
    /\ last.req.op = "delete_task"
    /\ last.res = "ok"
    /\ Cardinality(last.out.rm) = 2
    /\ Cardinality(last.out.rm \cap blobs) = 1
    /\ files = {}
    /\ tasks = {}

\* ------------------------------------------- under SpecUpd: partial update

UpdTags == 1
UpdTasks == 1

InitUpd == InitWith({Admin, Alice}, Caps(UpdTags, UpdTasks, 0, 0, 0))

NextUpd ==
    \/ CreateTag(2, None, <<"a">>)
    \/ \E ids \in {NoTagIds, TagIdList(<<1>>)} :
            CreateTask(2, None, TaskCreate(<<"a">>, Some(<<"d">>), At(0, TRUE), "todo", 1,
                                           ids, <<>>))
    \/ \E a \in {1, 2},
          title \in {NoText, Some(<<" ", "b">>)},
          description \in {NoText, Some(<<"e">>)},
          due_at \in {NoTime, At(1, TRUE)},
          status \in {NoStatus, Some("done")},
          repeat \in {None, 2},
          ids \in {NoTagIds, TagIdList(<<>>), TagIdList(<<1>>)} :
            UpdateTask(a, 1, TaskUpdate(title, description, due_at, status, repeat, ids))
    \/ DeleteTask(2, 1, {})

SpecUpd == InitUpd /\ [][NextUpd]_vars

\* What an update that reached its UPDATE owes the row it names.
UpdateOwed(old, new, data) ==
    /\ new.title = IF data.title.set THEN Strip(data.title.v) ELSE old.title
    /\ new.description = IF data.description.set THEN data.description
                                                 ELSE old.description
    /\ new.due_at = IF data.due_at.set THEN data.due_at ELSE old.due_at
    /\ new.status = IF data.status.set THEN data.status.v ELSE old.status
    /\ new.repeat_interval_minutes =
          IF data.repeat_interval_minutes # None THEN data.repeat_interval_minutes
                                                 ELSE old.repeat_interval_minutes
    /\ new.id = old.id
    /\ new.user_id = old.user_id
    /\ new.created_at = old.created_at

\* The update_task step, seen from the rows.
UpdateStep ==
    last'.req.op = "update_task"
    => /\ {t.id : t \in tasks'} = {t.id : t \in tasks}
       /\ ~last'.req.data.tag_ids.given => taskTag' = taskTag
       /\ IF last'.res \in {"ok", "UnknownTagIds"}
          THEN \A old \in tasks : \A new \in tasks' :
                  old.id = new.id
                  => IF old.id = last'.req.tid
                     THEN UpdateOwed(old, new, last'.req.data)
                     ELSE new = old
          ELSE tasks' = tasks /\ taskTag' = taskTag

\* C19: an update of a task replaces each of title (stripped), description,
\* due_at, status and repeat_interval_minutes that the request supplies and
\* keeps each that it leaves out; id, user_id and created_at stay; without
\* tag_ids the TaskTag rows stay.
C19_UpdateChangesOnlySupplied == [][UpdateStep]_vars

\* C19 happens: an update with only a title and a status went through on a
\* task that has a description, a due date, a repeat interval and a tag.
C19_Witness ==
    /\ last.req.op = "update_task"
    /\ last.res = "ok"
    /\ last.req.data.title.set
    /\ last.req.data.status.set
    /\ ~last.req.data.description.set
    /\ ~last.req.data.due_at.set
    /\ last.req.data.repeat_interval_minutes = None
    /\ ~last.req.data.tag_ids.given
    /\ \E t \in tasks : /\ t.id = last.req.tid
                         /\ t.title = <<"b">>
                         /\ t.status = "done"
                         /\ t.description = Some(<<"d">>)
                         /\ t.due_at = At(0, TRUE)
                         /\ t.repeat_interval_minutes = 1
                         /\ TagLinks(taskTag, t.id) = {1}

\* ---------------------------------------- under SpecTags: copied tag sets

\* The step replaces the tags of a task, or deletes a task.
TagsReplacedOrTaskDeleted ==
    \/ last'.req.op = "update_task" /\ last'.req.tag_ids.given
    \/ last'.req.op = "delete_task"

\* C20: a tag replacement on a task, or the deletion of a task, leaves the
\* TaskTag rows of every other task as they were; so the rows copied by
\* generate-next and the rows of its source do not follow each other.
C20_CopiedTagsIndependent ==
    [][TagsReplacedOrTaskDeleted
       => \A t \in tasks :
             t.id # last'.req.tid => LinksOf(taskTag', t.id) = LinksOf(taskTag, t.id)]_vars

\* C20 happens: task 2 was generated from task 1 with its tag, and the tags
\* of task 1 have just been replaced by none; task 2 still has the tag.
C20_Witness ==
    /\ last.req.op = "update_task"
    /\ last.res = "ok"
    /\ last.req.tid = 1
    /\ last.req.tag_ids.given
    /\ TagLinks(taskTag, 1) = {}
    /\ TagLinks(taskTag, 2) # {}
    /\ \E s \in tasks : \E g \in tasks :
          /\ s.id = 1 /\ g.id = 2
          /\ g.due_at.t = s.due_at.t + s.repeat_interval_minutes
          /\ g.user_id = s.user_id

\* ------------------------------------ SpecSync: tag syncs that run together

SyncTags == 2
SyncTasks == 1

InitSync == InitWith({Admin, Alice}, Caps(SyncTags, SyncTasks, 0, 0, 0))

NextSync ==
    \/ \E n \in {<<"a">>, <<"b">>} : CreateTag(2, None, n)
    \/ CreateTask(2, None, TaskCreate(<<"a">>, NoText, NoTime, "todo", None,
                                      NoTagIds, <<>>))
    \/ \E p \in Workers, a \in {1, 2},
          ids \in {<<>>, <<1>>, <<2>>, <<1, 2>>} :
            UpdateTaskBegin(p, a, 1, TaskUpdate(NoText, NoText, NoTime, NoStatus, None,
                                                TagIdList(ids)))
    \/ \E p \in Workers : SyncDelete(p)
    \/ \E p \in Workers : SyncInsert(p)
    \/ \E p \in Workers : UpdateTaskReturn(p)

SpecSync == InitSync /\ [][NextSync]_vars

\* No tag sync is under way.
SyncsDone == \A p \in Workers : sync[p].pc = "idle"

\* C21 as claimed: when the tag syncs of a task have all returned, the task
\* is linked to exactly the tags one of them asked for, never to a mixture.
C21_ConcurrentSyncsNoMixture ==
    SyncsDone
    => \A t \in tasks :
          (\E p \in Workers : sync[p].tid = t.id)
          => \E p \in Workers : /\ sync[p].tid = t.id
                                 /\ TagLinks(taskTag, t.id) = Range(sync[p].asked)

\* Two syncs of one task ran together, one asked for tag 1 and the other for
\* tag 2, both returned, and the task has both tags.
SyncMixtureSeen ==
    /\ SyncsDone
    /\ sync[1].asked = <<1>>
    /\ sync[2].asked = <<2>>
    /\ TagLinks(taskTag, 1) = {1, 2}

\* ------------------------------- SpecAuth: tokens of changed and deleted users

AuthTags == 1
AuthTasks == 1

InitAuth == InitWith({Admin, Alice}, Caps(AuthTags, AuthTasks, 0, 0, 0))

NextAuth ==
    \/ \E a \in {1, 2}, u \in {None, 2} : CreateTag(a, u, <<"a">>)
    \/ \E a \in {1, 2} : DeleteTag(a, 1)
    \/ \E a \in {1, 2}, u \in {None, 2} :
            CreateTask(a, u, TaskCreate(<<"a">>, NoText, NoTime, "todo", None,
                                        NoTagIds, <<>>))
    \/ \E a \in {1, 2}, t \in 1..cap.task : GetTask(a, t)
    \/ \E a \in {1, 2}, t \in 1..cap.task :
            UpdateTask(a, t, TaskUpdate(NoText, NoText, NoTime, Some("done"), None,
                                        NoTagIds))
    \/ \E a \in {1, 2}, t \in 1..cap.task : DeleteTask(a, t, {})
    \/ \E a \in {1, 2}, u \in {1, 2}, role \in {NoRole, Some("user"), Some("admin")} :
            UpdateUser(a, u, role)
    \/ \E a \in {1, 2}, u \in {1, 2} : DeleteUser(a, u)

SpecAuth == InitAuth /\ [][NextAuth]_vars

\* The request names a row of another user than its actor.
CrossOwner(req) ==
    \/ /\ req.op \in {"get_task", "update_task", "delete_task"}
       /\ \E t \in tasks : t.id = req.tid /\ t.user_id # req.actor
    \/ /\ req.op = "delete_tag"
       /\ \E g \in tags : g.id = req.rid /\ g.user_id # req.actor

\* What a request owes to the User row its token names, as stored when the
\* request arrives.
AuthOwed(req, res) ==
    req.actor # None
    => IF ~\E u \in users : u.id = req.actor
       THEN res = "Unauthenticated" /\ store' = store
       ELSE (\E u \in users : u.id = req.actor /\ u.role # "admin")
            => /\ req.op \in {"update_user", "delete_user"}
                  => res = "AdminRequired" /\ store' = store
               /\ (req.op \in {"create_task", "create_tag"} /\ req.uid # None)
                  => res = "AdminRequired" /\ store' = store
               /\ CrossOwner(req)
                  => res = "AccessDenied" /\ store' = store

\* C22: every request is judged by the User row its token names as that row
\* is when the request arrives: with the row deleted it is answered
\* Unauthenticated and writes nothing; with the row's role user (also when it
\* was admin before) an admin-only call or a call on behalf of another user is
\* answered AdminRequired, a call on another user's task or tag AccessDenied,
\* and nothing is written.
C22_AuthByStoredIdentity == [][AuthOwed(last'.req, last'.res)]_vars

\* C22 happens: Alice was deleted and the seeded admin was made a user; the
\* admin's token has just been refused for deleting a user.
C22_Witness ==
    /\ last.req.op = "delete_user"
    /\ last.req.actor = Admin.id
    /\ last.res = "AdminRequired"
    /\ \E u \in users : u.id = Admin.id /\ u.role = "user"
    /\ ~\E u \in users : u.id = Alice.id

\* A token of the deleted Alice has just been refused.
DeletedUserTokenRefused ==
    /\ last.req.actor = Alice.id
    /\ last.res = "Unauthenticated"
    /\ ~\E u \in users : u.id = Alice.id

\* --------------------------- SpecPath: reminders addressed through a task

PathTasks == 2
PathRems == 2

InitPath == InitWith({Admin, Alice, Bob}, Caps(0, PathTasks, 0, 0, PathRems))

NextPath ==
    \/ \E a \in {2, 3} :
            CreateTask(a, None, TaskCreate(<<"a">>, NoText, NoTime, "todo", None,
                                           NoTagIds, <<>>))
    \/ \E a \in {2, 3}, t \in 1..cap.task :
            CreateReminder(a, t, 1, NoTime, NoTime, TRUE)
    \/ \E a \in {1, 2, 3}, t \in 1..(cap.task + 1), i \in 1..cap.reminder,
          enabled \in {NoBool, Some(FALSE)} :
            UpdateReminder(a, t, i, None, NoTime, NoTime, enabled)
    \/ \E a \in {1, 2, 3}, t \in 1..(cap.task + 1), i \in 1..cap.reminder :
            DeleteReminder(a, t, i)

SpecPath == InitPath /\ [][NextPath]_vars

\* The step is an update or delete of a reminder that exists, addressed
\* through a task id other than the reminder's.
ThroughOtherTask ==
    /\ last'.req.op \in {"update_reminder", "delete_reminder"}
    /\ \E r \in reminders : r.id = last'.req.rid /\ r.task_id # last'.req.tid

\* The actor of the request may work on the task its path names.
PathTaskOpen(req) ==
    \E t \in tasks : \E u \in users :
        /\ t.id = req.tid
        /\ u.id = req.actor
        /\ (u.role = "admin" \/ t.user_id = u.id)

\* C23 as claimed: an update or delete of a reminder through a task that is
\* not its own is answered NotFound and leaves the reminders as they were.
C23_WrongTaskNotFound ==
    [][ThroughOtherTask => (last'.res = "NotFound" /\ reminders' = reminders)]_vars

\* C23: an update or delete of a reminder through a task that is not its own
\* leaves the reminders as they were; it is answered NotFound when the task of
\* the path does not exist or is open to the actor, and AccessDenied when the
\* task of the path exists and is not open to the actor.
C23_WrongTaskRefused ==
    [][ThroughOtherTask
       => /\ reminders' = reminders
          /\ last'.res = IF \E t \in tasks : t.id = last'.req.tid
                         THEN IF PathTaskOpen(last'.req) THEN "NotFound"
                                                         ELSE "AccessDenied"
                         ELSE "NotFound"]_vars

\* C23 happens: Alice has just named Bob's reminder together with a task of
\* her own, was answered NotFound, and the reminder is as it was.
C23_Witness ==
    /\ last.req.op = "update_reminder"
    /\ last.req.actor = Alice.id
    /\ last.req.is_enabled.set
    /\ last.res = "NotFound"
    /\ \E t \in tasks : t.id = last.req.tid /\ t.user_id = Alice.id
    /\ \E r \in reminders : /\ r.id = last.req.rid
                             /\ r.user_id = Bob.id
                             /\ r.task_id # last.req.tid
                             /\ r.is_enabled

====
